---- MODULE Spec2Model ----
(***************************************************************************)
(* ClawFeed fetch-and-digest pipeline (scripts/setup-cron.sh, the node     *)
(* script that starts at line 82): source fetch loop, pre-synthesis dedup, *)
(* push-history store, digest synthesis, webhook distribution.             *)
(*                                                                         *)
(* Strings are sequences of one-character strings. URLs are records of the *)
(* parts the normalisers look at. Time is counted in hours.                *)
(***************************************************************************)
EXTENDS Integers, Sequences, FiniteSets, TLC

(***************************************************************************)
(* Characters and titles                                                   *)
(***************************************************************************)

LowerLetters == {"a","b","c","d","e","f","g","h","i","j","k","l","m",
                 "n","o","p","q","r","s","t","u","v","w","x","y","z"}

Digits == {"0","1","2","3","4","5","6","7","8","9"}

\* String.prototype.toLowerCase on one character of the model's alphabet.
toLowerCase(c) ==
  CASE c = "A" -> "a" [] c = "B" -> "b" [] c = "C" -> "c" [] c = "D" -> "d"
    [] c = "O" -> "o" [] c = "I" -> "i" [] c = "M" -> "m" [] c = "K" -> "k"
    [] OTHER -> c

LowerStr(s) == [i \in 1..Len(s) |-> toLowerCase(s[i])]

\* /\s/ on the model's alphabet.
Whitespace == {" "}

\* The character class of normalizeTitle, restricted to the model's alphabet.
TitleStripChars == Whitespace \cup {":", ",", ".", "!", "?", "-", "\"", "'"}

IsNotWhitespace(c) == c \notin Whitespace
IsNotTitleStrip(c) == c \notin TitleStripChars

\* (title || '').replace(/\s+/g, '').toLowerCase()
titleHashInput(title) == LowerStr(SelectSeq(title, IsNotWhitespace))

\* normalizeTitle
normalizeTitle(title) == LowerStr(SelectSeq(title, IsNotTitleStrip))

\* s.slice(i, j) with 1-based inclusive bounds
Slice(s, i, j) == [k \in 1..(j - i + 1) |-> s[i + k - 1]]

\* String.prototype.includes
Includes(s, t) ==
  \E i \in 1..(Len(s) - Len(t) + 1) : Slice(s, i, i + Len(t) - 1) = t

\* Largest j >= i - 1 such that s[i..j] lies in the class cls.
RECURSIVE RunEnd(_, _, _)
RunEnd(s, i, cls) ==
  IF i <= Len(s) /\ s[i] \in cls THEN RunEnd(s, i + 1, cls) ELSE i - 1

NumBodyChars == Digits \cup {",", "."}
\* [亿万千百kmbgt%％] on the model's alphabet
NumUnitChars == {"k", "m", "b", "g", "t", "%"}
DollarUnitChars == {"k", "m", "b", "g", "t"}

\* End of the match of /\d[\d,.]*[亿万千百kmbgt%％]+|\$[\d,.]+[kmbgt]*/ at i, 0 if none.
NumberMatchEnd(s, i) ==
  LET body1 == RunEnd(s, i + 1, NumBodyChars)
      unit1 == RunEnd(s, body1 + 1, NumUnitChars)
      body2 == RunEnd(s, i + 1, NumBodyChars)
      unit2 == RunEnd(s, body2 + 1, DollarUnitChars)
  IN  IF s[i] \in Digits /\ unit1 > body1 THEN unit1
      ELSE IF s[i] = "$" /\ body2 > i THEN unit2
      ELSE 0

NameBodyChars == LowerLetters \cup Digits \cup {"."}
NameEndChars == LowerLetters \cup Digits

\* End of the match of /[a-z][a-z0-9.]*[a-z0-9]/ at i, 0 if none.
NameMatchEnd(s, i) ==
  LET run == RunEnd(s, i + 1, NameBodyChars)
      ends == {e \in (i + 1)..run : s[e] \in NameEndChars}
  IN  IF s[i] \in LowerLetters /\ ends # {}
      THEN CHOOSE e \in ends : \A f \in ends : f <= e
      ELSE 0

\* String.prototype.match with a global regular expression, as a set of matches.
RECURSIVE NumberMatches(_, _)
NumberMatches(s, i) ==
  IF i > Len(s) THEN {}
  ELSE LET e == NumberMatchEnd(s, i)
       IN  IF e = 0 THEN NumberMatches(s, i + 1)
           ELSE {Slice(s, i, e)} \cup NumberMatches(s, e + 1)

RECURSIVE NameMatches(_, _)
NameMatches(s, i) ==
  IF i > Len(s) THEN {}
  ELSE LET e == NameMatchEnd(s, i)
       IN  IF e = 0 THEN NameMatches(s, i + 1)
           ELSE {Slice(s, i, e)} \cup NameMatches(s, e + 1)

\* extractKeyEntities (cnNames is never read by titlesAreSimilar)
extractKeyEntities(title) ==
  LET norm == normalizeTitle(title)
  IN  [numbers |-> NumberMatches(norm, 1), names |-> NameMatches(norm, 1)]

bigrams(s) == {<<s[i], s[i + 1]>> : i \in 1..(Len(s) - 1)}

NameShortLimit == 30
NameMinLen == 4

\* A comparison that only asks whether the first title contains the second
similarOneWay(na, nb, ea, eb) ==
  na # <<>> /\ nb # <<>> /\ Includes(na, nb)

\* titlesAreSimilar on the normalised titles na, nb and their entities ea, eb
similarNormalized(na, nb, ea, eb) ==
  LET nameRel(n, m) == n = m \/ Includes(n, m) \/ Includes(m, n)
      sharedNames == {n \in ea.names : \E m \in eb.names : nameRel(n, m)}
      sharedNums == ea.numbers \cap eb.numbers
      sharedLong == {n \in ea.names : Len(n) >= NameMinLen /\
                       \E m \in eb.names : Len(m) >= NameMinLen /\ nameRel(n, m)}
      ba == bigrams(na)
      bb == bigrams(nb)
      intersection == Cardinality(ba \cap bb)
      union == Cardinality(ba) + Cardinality(bb) - intersection
  IN  IF na = <<>> \/ nb = <<>> THEN FALSE
      ELSE IF na = nb THEN TRUE
      ELSE IF Includes(na, nb) \/ Includes(nb, na) THEN TRUE
      ELSE IF ea.names # {} /\ eb.names # {} /\ ea.numbers # {} /\ eb.numbers # {}
              /\ sharedNames # {} /\ sharedNums # {} THEN TRUE
      ELSE IF ea.names # {} /\ eb.names # {} /\ sharedLong # {}
              /\ Len(na) < NameShortLimit /\ Len(nb) < NameShortLimit THEN TRUE
      ELSE IF ba = {} \/ bb = {} THEN FALSE
      ELSE union > 0 /\ 100 * intersection > 35 * union

\* titlesAreSimilar
titlesAreSimilar(a, b) ==
  similarNormalized(normalizeTitle(a), normalizeTitle(b),
                    extractKeyEntities(a), extractKeyEntities(b))

(***************************************************************************)
(* URLs                                                                    *)
(*   scheme  "http", "https", or "" when the string has no scheme (new URL *)
(*           throws on it)                                                 *)
(*   www     the host starts with www.                                     *)
(*   slash   the path ends with a slash                                    *)
(*   query   the ?query part, "" when absent                               *)
(*   upper   the string holds upper-case letters                           *)
(* A normalised URL string is a record of what is left of these parts.     *)
(***************************************************************************)

\* '' and undefined, which every reader below treats alike
NoUrl == [scheme |-> "", www |-> FALSE, host |-> "", path |-> "",
          slash |-> FALSE, query |-> "", upper |-> FALSE]

EmptyStr == [www |-> FALSE, host |-> "", path |-> "", slash |-> FALSE,
             query |-> "", upper |-> FALSE]

\* url.toLowerCase() of a string that is kept whole
LowerWhole(url) == [www |-> url.www, host |-> url.host, path |-> url.path,
                    slash |-> url.slash, query |-> url.query, upper |-> FALSE]

\* new URL(url) succeeds
Parses(url) == url.scheme # ""

\* (u.hostname + u.pathname).replace(/\/+$/, '').toLowerCase()
HostAndPath(url) == [www |-> url.www, host |-> url.host, path |-> url.path,
                     slash |-> FALSE, query |-> "", upper |-> FALSE]

\* normalizeUrlForHash
normalizeUrlForHash(url) ==
  IF Parses(url) THEN HostAndPath(url)
  ELSE IF url = NoUrl THEN EmptyStr ELSE LowerWhole(url)

\* deduplicateItems.normalizeUrl
normalizeUrl(url) ==
  IF Parses(url) THEN HostAndPath(url)
  ELSE IF url = NoUrl THEN EmptyStr ELSE LowerWhole(url)

\* main, batch-local key:
\* item.url.replace(/\/+$/, '').replace(/^https?:\/\/(www\.)?/, '').toLowerCase()
batchNormUrl(url) ==
  IF url = NoUrl THEN EmptyStr
  ELSE [www |-> IF Parses(url) THEN FALSE ELSE url.www,
        host |-> url.host, path |-> url.path,
        slash |-> url.slash /\ url.query # "",
        query |-> url.query, upper |-> FALSE]

\* hashStr: the first 16 hex digits of SHA-256, taken to be free of collisions
hashStr(s) == [sha256 |-> s]

urlHashOf(item) == hashStr(normalizeUrlForHash(item.url))
titleHashOf(item) == hashStr(titleHashInput(item.title))

(***************************************************************************)
(* Push-history store: the pushed_items table is a sequence of rows in     *)
(* insertion order.                                                        *)
(***************************************************************************)

SuppressHours == 72
RetentionDays == 7
HoursPerDay == 24

EmptyHistory == [urlHashes |-> {}, titleHashes |-> {}, titles |-> <<>>]

HasTitle(r) == r.title # <<>>

\* loadPushedHistory without the WHERE clause on pushed_at
loadPushedHistoryNoWindow(tbl, hours, now, ok) ==
  LET titled == SelectSeq(tbl, HasTitle)
  IN  IF ok
      THEN [urlHashes |-> {tbl[i].url_hash : i \in 1..Len(tbl)},
            titleHashes |-> {tbl[i].title_hash : i \in 1..Len(tbl)},
            titles |-> [i \in 1..Len(titled) |-> titled[i].title]]
      ELSE EmptyHistory

\* loadPushedHistory at SQLite time now; ok = FALSE when the query throws
loadPushedHistory(tbl, hours, now, ok) ==
  LET InWindow(r) == r.pushed_at >= now - hours
      rows == SelectSeq(tbl, InWindow)
      titled == SelectSeq(rows, HasTitle)
  IN  IF ok
      THEN [urlHashes |-> {rows[i].url_hash : i \in 1..Len(rows)},
            titleHashes |-> {rows[i].title_hash : i \in 1..Len(rows)},
            titles |-> [i \in 1..Len(titled) |-> titled[i].title]]
      ELSE EmptyHistory

\* A plain INSERT with no unique index
InsertAlways(tbl, item, digestType, now) ==
  Append(tbl, [url_hash |-> urlHashOf(item), title_hash |-> titleHashOf(item),
               title |-> item.title, url |-> item.url,
               digest_type |-> digestType, pushed_at |-> now])

\* An INSERT OR REPLACE: a stored row with the same url_hash is overwritten
InsertOrReplace(tbl, item, digestType, now) ==
  LET row == [url_hash |-> urlHashOf(item), title_hash |-> titleHashOf(item),
              title |-> item.title, url |-> item.url,
              digest_type |-> digestType, pushed_at |-> now]
  IN  IF \E i \in 1..Len(tbl) : tbl[i].url_hash = row.url_hash
      THEN [k \in 1..Len(tbl) |->
              IF tbl[k].url_hash = row.url_hash THEN row ELSE tbl[k]]
      ELSE Append(tbl, row)

\* One INSERT OR IGNORE under the unique index idx_pushed_url_hash.
InsertOrIgnore(tbl, item, digestType, now) ==
  LET row == [url_hash |-> urlHashOf(item), title_hash |-> titleHashOf(item),
              title |-> item.title, url |-> item.url,
              digest_type |-> digestType, pushed_at |-> now]
  IN  IF \E i \in 1..Len(tbl) : tbl[i].url_hash = row.url_hash
      THEN tbl
      ELSE Append(tbl, row)

\* recordPushedItems: the transaction over the list
RECURSIVE recordPushedItems(_, _, _, _)
recordPushedItems(tbl, items, digestType, now) ==
  IF items = <<>> THEN tbl
  ELSE recordPushedItems(InsertOrIgnore(tbl, Head(items), digestType, now),
                         Tail(items), digestType, now)

\* cleanOldPushedItems; ok = FALSE when the statement throws (swallowed)
cleanOldPushedItems(tbl, days, now, ok) ==
  LET Kept(r) == ~(r.pushed_at < now - days * HoursPerDay)
  IN  IF ok THEN SelectSeq(tbl, Kept) ELSE tbl

\* isItemPushedBefore without the loop over history.titles
isItemPushedBeforeByHash(history, item) ==
  \/ urlHashOf(item) \in history.urlHashes
  \/ titleHashOf(item) \in history.titleHashes

\* isItemPushedBefore
isItemPushedBefore(history, item) ==
  \/ urlHashOf(item) \in history.urlHashes
  \/ titleHashOf(item) \in history.titleHashes
  \/ /\ item.title # <<>>
     /\ \E i \in 1..Len(history.titles) :
          titlesAreSimilar(item.title, history.titles[i])

(***************************************************************************)
(* Items. A FetchedItem has title, url and pubDate; a synthesized item has *)
(* title, url, summary and category.                                       *)
(***************************************************************************)

\* item.pubDate: absent, a string Date cannot parse (NaN), or a time in hours
NoDate == [present |-> FALSE, valid |-> FALSE, at |-> 0]
BadDate == [present |-> TRUE, valid |-> FALSE, at |-> 0]
DateAt(t) == [present |-> TRUE, valid |-> TRUE, at |-> t]

\* MAX_ARTICLE_AGE_HOURS, default '72'
MAX_ARTICLE_AGE_HOURS == 72

\* main 1281-1288, the staleness test: a publish date that is present and
\* parses, and lies more than the maximum age before now
IsStaleInclusive(item, now) ==
  /\ item.pubDate.present
  /\ item.pubDate.valid
  /\ (now - item.pubDate.at) >= MAX_ARTICLE_AGE_HOURS

IsStale(item, now) ==
  /\ item.pubDate.present
  /\ item.pubDate.valid
  /\ (now - item.pubDate.at) > MAX_ARTICLE_AGE_HOURS

\* item.url ? batch-local key : ''
normUrlOf(item) == IF item.url # NoUrl THEN batchNormUrl(item.url) ELSE EmptyStr

\* seenUrls after if (normUrl) seenUrls.add(normUrl)
SeenAdd(seenUrls, normUrl) ==
  IF normUrl # EmptyStr THEN seenUrls \cup {normUrl} ELSE seenUrls

\* A variant of the iteration that consults the history before the URL is
\* noted in seenUrls
PreDedupStepHistoryFirst(acc, item, pushDb, history, now) ==
  IF IsStale(item, now)
  THEN [acc EXCEPT !.staleSkipped = @ + 1]
  ELSE IF normUrlOf(item) # EmptyStr /\ normUrlOf(item) \in acc.seenUrls
  THEN acc
  ELSE IF pushDb /\ isItemPushedBefore(history, item)
  THEN [acc EXCEPT !.historySkipped = @ + 1]
  ELSE [acc EXCEPT !.seenUrls = SeenAdd(@, normUrlOf(item)),
                   !.dedupedItems = Append(@, item)]

\* A variant of the iteration that does not count the stale items
PreDedupStepStaleUncounted(acc, item, pushDb, history, now) ==
  IF IsStale(item, now)
  THEN acc
  ELSE IF normUrlOf(item) # EmptyStr /\ normUrlOf(item) \in acc.seenUrls
  THEN acc
  ELSE IF pushDb /\ isItemPushedBefore(history, item)
  THEN [acc EXCEPT !.seenUrls = SeenAdd(@, normUrlOf(item)),
                   !.historySkipped = @ + 1]
  ELSE [acc EXCEPT !.seenUrls = SeenAdd(@, normUrlOf(item)),
                   !.dedupedItems = Append(@, item)]

\* main, step 2.6: one iteration of the pre-dedup loop.
\* acc = [seenUrls, dedupedItems, historySkipped, staleSkipped]
PreDedupStep(acc, item, pushDb, history, now) ==
  IF IsStale(item, now)
  THEN [acc EXCEPT !.staleSkipped = @ + 1]
  ELSE IF normUrlOf(item) # EmptyStr /\ normUrlOf(item) \in acc.seenUrls
  THEN acc
  ELSE IF pushDb /\ isItemPushedBefore(history, item)
  THEN [acc EXCEPT !.seenUrls = SeenAdd(@, normUrlOf(item)),
                   !.historySkipped = @ + 1]
  ELSE [acc EXCEPT !.seenUrls = SeenAdd(@, normUrlOf(item)),
                   !.dedupedItems = Append(@, item)]

\* main, step 2.6: the pre-dedup loop from item i on
RECURSIVE PreDedupLoop(_, _, _, _, _, _)
PreDedupLoop(items, i, acc, pushDb, history, now) ==
  IF i > Len(items) THEN acc
  ELSE PreDedupLoop(items, i + 1,
                    PreDedupStep(acc, items[i], pushDb, history, now),
                    pushDb, history, now)

PreDedup(items, pushDb, history, now) ==
  PreDedupLoop(items, 1,
    [seenUrls |-> {}, dedupedItems |-> <<>>, historySkipped |-> 0,
     staleSkipped |-> 0],
    pushDb, history, now)

(***************************************************************************)
(* The titles and URLs the model draws from                                *)
(***************************************************************************)

T_abcd == <<"a", "b", "c", "d">>
T_Ab_cd == <<"A", "b", " ", "c", "d">>
T_ab_cd == <<"a", "b", "-", "c", "d">>
T_efgh == <<"e", "f", "g", "h">>
T_ijkl == <<"i", "j", "k", "l">>
T_mnop == <<"m", "n", "o", "p">>
T_qrst == <<"q", "r", "s", "t">>
T_uvwx == <<"u", "v", "w", "x">>
T_empty == <<>>

UrlOf(p) == [scheme |-> "https", www |-> FALSE, host |-> "example.com",
             path |-> p, slash |-> FALSE, query |-> "", upper |-> FALSE]

\* http://www.example.com/<p>/
UrlWwwOf(p) == [scheme |-> "http", www |-> TRUE, host |-> "example.com",
                path |-> p, slash |-> TRUE, query |-> "", upper |-> FALSE]

Fetched(t, u, d) == [title |-> t, url |-> u, pubDate |-> d]

(***************************************************************************)
(* Digest synthesis                                                        *)
(***************************************************************************)

\* category values: "hot" is '重要动态', "general" is '精选资讯'
HOT == "hot"
GENERAL == "general"

Synth(t, u, sm, c) == [title |-> t, url |-> u, summary |-> sm, category |-> c]

\* First index of x in seq, 0 when absent (Array.prototype.indexOf + 1)
IndexOf(seq, x) ==
  IF \E i \in 1..Len(seq) : seq[i] = x
  THEN CHOOSE i \in 1..Len(seq) : seq[i] = x /\ \A j \in 1..(i - 1) : seq[j] # x
  ELSE 0

\* result[idx] = item when idx !== -1
ReplaceAt(seq, idx, item) == IF idx = 0 THEN seq ELSE [seq EXCEPT ![idx] = item]

\* Map.prototype.delete on a map kept as a sequence of <<key, value>> in
\* insertion order
MapDelete(m, key) == LET Keep(e) == e[1] # key IN SelectSeq(m, Keep)

\* Map.prototype.set: an existing key keeps its place
MapSet(m, key, val) ==
  IF \E i \in 1..Len(m) : m[i][1] = key
  THEN [i \in 1..Len(m) |-> IF m[i][1] = key THEN <<key, val>> ELSE m[i]]
  ELSE Append(m, <<key, val>>)

MapHas(m, key) == \E i \in 1..Len(m) : m[i][1] = key
MapGet(m, key) == m[CHOOSE i \in 1..Len(m) : m[i][1] = key][2]

\* deduplicateItems, the title loop: the first entry of seen whose title is
\* similar to title, 0 when there is none
FirstSimilar(seen, title) ==
  LET similar == {k \in 1..Len(seen) : titlesAreSimilar(title, seen[k][2].title)}
  IN  IF similar = {} THEN 0 ELSE CHOOSE k \in similar : \A j \in similar : k <= j

\* deduplicateItems, putting item (key normUrl) where exist was
DedupReplace(seen, result, normUrl, exist, item) ==
  [seen |-> MapSet(seen, normUrl, item),
   result |-> ReplaceAt(result, IndexOf(result, exist), item)]

\* deduplicateItems, one iteration of the loop. acc = [seen, result];
\* first = FirstSimilar(acc.seen, item.title)
DedupStep(acc, item, normUrl, first) ==
  IF MapHas(acc.seen, normUrl)
  THEN IF item.category = HOT /\ MapGet(acc.seen, normUrl).category # HOT
       THEN DedupReplace(acc.seen, acc.result, normUrl,
                         MapGet(acc.seen, normUrl), item)
       ELSE acc
  ELSE IF first # 0
  THEN IF item.category = HOT /\ acc.seen[first][2].category # HOT
       THEN DedupReplace(MapDelete(acc.seen, acc.seen[first][1]), acc.result,
                         normUrl, acc.seen[first][2], item)
       ELSE acc
  ELSE [seen |-> MapSet(acc.seen, normUrl, item),
        result |-> Append(acc.result, item)]

\* deduplicateItems, the loop from item i on
RECURSIVE DedupLoop(_, _, _)
DedupLoop(items, i, acc) ==
  IF i > Len(items) THEN acc.result
  ELSE DedupLoop(items, i + 1,
                 DedupStep(acc, items[i], normalizeUrl(items[i].url),
                           FirstSimilar(acc.seen, items[i].title)))

deduplicateItems(items) == DedupLoop(items, 1, [seen |-> <<>>, result |-> <<>>])

(***************************************************************************)
(* The model's reply. rawContent is a record [form, items]:                *)
(*   "array"   a JSON array of the items                                   *)
(*   "fenced"  that array inside a ```json fence                           *)
(*   "prose"   that array with a sentence before and after it              *)
(*   "object"  one JSON object (items has one element)                     *)
(*   "text"    text with no JSON in it (items is empty)                    *)
(* A candidate string is [parses, items]: whether JSON.parse accepts it    *)
(* and the array it yields.                                                *)
(***************************************************************************)

ParseFail == [parses |-> FALSE, items |-> <<>>]
ParseOk(items) == [parses |-> TRUE, items |-> items]

\* A summary as the model wrote it between the quotes of its JSON string:
\* plain text, text with curly or full-width quotation marks, text with a
\* quotation mark escaped by a backslash, and text with a bare ASCII
\* quotation mark, written on a line of its own ("summary": "...",) or on a
\* line shared with other keys
SumPlain == "s"
SumCurly == "s {LDQ}q{RDQ}"
SumFullWidth == "s {FWQ}q{FWQ}"
SumEscaped == "s \\\"q\\\""
SumBareOwnLine == "s \"q\" (own line)"
SumBareShared == "s \"q\" (shared line)"

\* JSON.parse rejects a text in which a string holds a bare quotation mark
Breaks(items) ==
  \E i \in 1..Len(items) : items[i].summary \in {SumBareOwnLine, SumBareShared}

\* JSON.parse of the text of an array (or one object) of items
ParseJson(items) == IF Breaks(items) THEN ParseFail ELSE ParseOk(items)

\* fixLlmJsonQuotes 849-870 on one written summary: the typographic marks
\* become \", and a bare mark is escaped when keyPattern matches its line
fixSummary(sm) ==
  IF sm \in {SumCurly, SumFullWidth, SumBareOwnLine} THEN SumEscaped ELSE sm

\* fixLlmJsonQuotes 849-870 on a text
fixLlmJsonQuotes(raw) ==
  [raw EXCEPT !.items =
     [i \in 1..Len(raw.items) |->
        [raw.items[i] EXCEPT !.summary = fixSummary(@)]]]

\* rawContent itself
CandRaw(raw) ==
  IF raw.form \in {"array", "object"} THEN ParseJson(raw.items) ELSE ParseFail

\* stripped: the code fence removed
CandStripped(raw) ==
  IF raw.form \in {"array", "object", "fenced"} THEN ParseJson(raw.items)
  ELSE ParseFail

\* extracted: the text around the outermost [ ... ] removed (a text with no
\* bracket is left as it is)
CandExtracted(raw) ==
  IF raw.form \in {"array", "prose", "fenced", "object"} THEN ParseJson(raw.items)
  ELSE ParseFail

\* aggressive: everything before the first [ and after the last ] removed
CandAggressive(raw) ==
  IF raw.form \in {"array", "prose", "fenced", "object"} THEN ParseJson(raw.items)
  ELSE ParseFail

\* singleObj: the text from the first { to the last }, wrapped in [ ]
CandSingleObj(raw) ==
  IF raw.form = "text" \/ raw.items = <<>> THEN ParseFail
  ELSE IF \E i \in 1..Len(raw.items) :
            raw.items[i].title # <<>> /\ raw.items[i].url # NoUrl
       THEN ParseJson(raw.items)
       ELSE ParseFail

\* singleObj is '' when the text holds no object with a title and a url
HasSingleObj(raw) ==
  /\ raw.form # "text"
  /\ \E i \in 1..Len(raw.items) :
       raw.items[i].title # <<>> /\ raw.items[i].url # NoUrl

\* A candidate: which base text it is, whether it went through
\* fixLlmJsonQuotes, and what JSON.parse makes of it
Cand(base, repaired, parsed) ==
  [base |-> base, repaired |-> repaired, parses |-> parsed.parses,
   items |-> parsed.items]

\* The base candidates that are not empty, in the order of the array literal
baseCandidates(raw) ==
  <<"raw", "stripped", "extracted", "aggressive">>
  \o (IF HasSingleObj(raw) THEN <<"singleObj">> ELSE <<>>)

ParseBase(base, raw) ==
  CASE base = "raw" -> CandRaw(raw)
    [] base = "stripped" -> CandStripped(raw)
    [] base = "extracted" -> CandExtracted(raw)
    [] base = "aggressive" -> CandAggressive(raw)
    [] base = "singleObj" -> CandSingleObj(raw)

\* Every base candidate, then all repaired variants
jsonCandidatesRepairedLast(raw) ==
  LET bases == baseCandidates(raw)
      fixed == fixLlmJsonQuotes(raw)
  IN  [k \in 1..Len(bases) |-> Cand(bases[k], FALSE, ParseBase(bases[k], raw))]
      \o (IF fixed # raw
          THEN [k \in 1..Len(bases) |->
                  Cand(bases[k], TRUE, ParseBase(bases[k], fixed))]
          ELSE <<>>)

\* generateDigest 988-993: each base candidate, followed by its repaired
\* variant when fixLlmJsonQuotes changes it
RECURSIVE PushCandidates(_, _, _)
PushCandidates(bases, k, raw) ==
  IF k > Len(bases) THEN <<>>
  ELSE LET fixed == fixLlmJsonQuotes(raw)
       IN  <<Cand(bases[k], FALSE, ParseBase(bases[k], raw))>>
           \o (IF fixed # raw
               THEN <<Cand(bases[k], TRUE, ParseBase(bases[k], fixed))>>
               ELSE <<>>)
           \o PushCandidates(bases, k + 1, raw)

jsonCandidates(raw) == PushCandidates(baseCandidates(raw), 1, raw)

\* A filter that also drops an item whose summary holds a typographic
\* quotation mark
IsValidItemPlainOnly(i) ==
  i.title # <<>> /\ i.url # NoUrl /\ i.summary \notin {"", SumCurly, SumFullWidth}

\* items.filter(i => i.title && i.url && i.summary)
IsValidItem(i) == i.title # <<>> /\ i.url # NoUrl /\ i.summary # ""

\* The first candidate that parses with at least one valid item; <<>> if none
FirstValid(cands) ==
  LET good == {k \in 1..Len(cands) :
                 cands[k].parses /\ SelectSeq(cands[k].items, IsValidItem) # <<>>}
  IN  IF good = {} THEN <<>>
      ELSE SelectSeq(cands[CHOOSE k \in good : \A j \in good : k <= j].items,
                     IsValidItem)

NoMetadata == [defined |-> FALSE, items |-> <<>>]

\* generateDigest after callDeepSeek has returned non-empty content
generateDigest(rawContent) ==
  LET structuredItems == FirstValid(jsonCandidates(rawContent))
      deduped == deduplicateItems(structuredItems)
  IN  IF structuredItems = <<>>
      THEN [content |-> [kind |-> "raw", raw |-> rawContent, items |-> <<>>],
            metadata |-> NoMetadata]
      ELSE [content |-> [kind |-> "markdown", raw |-> rawContent,
                         items |-> deduped],
            metadata |-> [defined |-> TRUE, items |-> deduped]]

\* tryRescueJsonItems on the digest body; a body with the deep-mode section
\* appended ends in text that no candidate removes
tryRescueJsonItems(content, deepAppended) ==
  LET raw == content.raw
      HasTitleSummary(i) == i.title # <<>> /\ i.summary # ""
      Valid(text) == SelectSeq(ParseJson(text.items).items, HasTitleSummary)
  IN  IF content.kind # "raw" \/ deepAppended THEN <<>>
      ELSE IF raw.form \notin {"array", "object"} THEN <<>>
      ELSE IF Valid(raw) # <<>> THEN Valid(raw)
      ELSE Valid(fixLlmJsonQuotes(raw))

(***************************************************************************)
(* State                                                                   *)
(***************************************************************************)

VARIABLES
  clock,          \* SQLite's and Date's "now", in hours
  ticks,          \* how often the clock has moved
  runs,           \* runs started so far
  table,          \* the pushed_items table
  pc,             \* where the run is
  pushHistory,    \* the snapshot loadPushedHistory returned
  allItems,       \* main: merged fetched items
  dedupedItems,   \* main: output of the pre-dedup loop
  tableAtLoad,    \* the table as loadPushedHistory read it
  tableBeforeRec, \* the table before the last recordPushedItems call
  recorded,       \* the list passed to the last recordPushedItems call
  lastRecAt,      \* url -> time of the last recordPushedItems call with it, -1 if none
  feishuWebhook,  \* FEISHU_WEBHOOK is set
  deepMode,       \* DEEP_MODE
  exitCode,       \* process exit status, -1 while the run goes on
  sources,        \* main: the active sources
  fetchLog,       \* per source called so far: did fetchSource throw, and its items
  pushDb,         \* main: pushDb is not null
  rawContent,     \* generateDigest: the model's reply
  content,        \* main: the digest body
  metadata,       \* main: the digest metadata
  deepAppended,   \* the deep-mode section was appended to content
  handed,         \* the items passed to sendFeishuArticles
  sent,           \* the webhook messages attempted, in order
  pushedItems,    \* main: pushedItems
  events,         \* what has happened in the run
  call,           \* the function call under study and its configuration
  attempts,       \* the network attempts the call has made, in order
  outcome,        \* how the call ended: pending, returned or threw, and with what
  okCount         \* sendFeishuArticles: ok

storeVars == <<clock, ticks, runs, table, pc, pushHistory, allItems,
               dedupedItems, tableAtLoad, tableBeforeRec, recorded, lastRecAt>>

runVars == <<feishuWebhook, deepMode, exitCode, sources, fetchLog, pushDb,
             rawContent, content, metadata, deepAppended, handed, sent,
             pushedItems, events>>

callVars == <<call, attempts, outcome, okCount>>

vars == <<storeVars, runVars, callVars>>

NoCall == [fn |-> "none"]
Pending == [state |-> "pending", value |-> <<>>]

\* No call is under study
CallIdle ==
  /\ call = NoCall
  /\ attempts = <<>>
  /\ outcome = Pending
  /\ okCount = 0

NoReply == [form |-> "text", items |-> <<>>]
NoContent == [kind |-> "none", raw |-> NoReply, items |-> <<>>]

\* The run's variables before main has done anything
RunIdle ==
  /\ exitCode = -1
  /\ sources = <<>>
  /\ fetchLog = <<>>
  /\ pushDb = FALSE
  /\ rawContent = NoReply
  /\ content = NoContent
  /\ metadata = NoMetadata
  /\ deepAppended = FALSE
  /\ handed = <<>>
  /\ sent = <<>>
  /\ pushedItems = <<>>
  /\ events = {}

DIGEST_TYPE == "4h"

(***************************************************************************)
(* The store as main drives it, run after run: load the snapshot and       *)
(* prune (step 2.5), pre-dedup a batch (step 2.6), record what was pushed  *)
(* (step 6). Time moves between runs.                                      *)
(***************************************************************************)

MaxTicks == 3
MaxRuns == 3
MaxBatch == 2
TickHours == {1, 71}

A1 == Fetched(T_abcd, UrlOf("a"), NoDate)
A2 == Fetched(T_efgh, UrlOf("a"), NoDate)
B1 == Fetched(T_ab_cd, UrlOf("b"), NoDate)
D1 == Fetched(T_mnop, UrlOf("a"), DateAt(0))

StoreItems == {A1, A2, B1, D1}
StoreUrls == {i.url : i \in StoreItems}

SeqsUpTo(S, n) == UNION {[1..k -> S] : k \in 0..n}

InitStore ==
  /\ clock = 0
  /\ ticks = 0
  /\ runs = 0
  /\ table = <<>>
  /\ pc = "idle"
  /\ pushHistory = EmptyHistory
  /\ allItems = <<>>
  /\ dedupedItems = <<>>
  /\ tableAtLoad = <<>>
  /\ tableBeforeRec = <<>>
  /\ recorded = <<>>
  /\ lastRecAt = [u \in StoreUrls |-> -1]
  /\ feishuWebhook = TRUE
  /\ deepMode = FALSE
  /\ RunIdle
  /\ CallIdle

StoreTick ==
  /\ pc = "idle"
  /\ ticks < MaxTicks
  /\ \E d \in TickHours : clock' = clock + d
  /\ ticks' = ticks + 1
  /\ UNCHANGED runVars
  /\ UNCHANGED <<runs, table, pc, pushHistory, allItems, dedupedItems,
                 tableAtLoad, tableBeforeRec, recorded, lastRecAt>>
  /\ UNCHANGED callVars

\* main 1268-1274: loadPushedHistory(pushDb, 72), cleanOldPushedItems(pushDb, 7)
StoreLoad ==
  /\ pc = "idle"
  /\ runs < MaxRuns
  /\ runs' = runs + 1
  /\ pushHistory' = loadPushedHistory(table, SuppressHours, clock, TRUE)
  /\ tableAtLoad' = table
  /\ table' = cleanOldPushedItems(table, RetentionDays, clock, TRUE)
  /\ recorded' = <<>>
  /\ tableBeforeRec' = <<>>
  /\ allItems' = <<>>
  /\ dedupedItems' = <<>>
  /\ pc' = "loaded"
  /\ UNCHANGED runVars
  /\ UNCHANGED <<clock, ticks, lastRecAt>>
  /\ UNCHANGED callVars

\* main 1276-1299 on a fetched batch
StorePreDedup ==
  /\ pc = "loaded"
  /\ \E batch \in SeqsUpTo(StoreItems, MaxBatch) :
       /\ batch # <<>>
       /\ allItems' = batch
       /\ dedupedItems' = PreDedup(batch, TRUE, pushHistory, clock).dedupedItems
  /\ pc' = "filtered"
  /\ UNCHANGED runVars
  /\ UNCHANGED <<clock, ticks, runs, table, pushHistory, tableAtLoad,
                 tableBeforeRec, recorded, lastRecAt>>
  /\ UNCHANGED callVars

\* main 1313: generateDigest takes the surviving items; a run with none ends
StoreSynth ==
  /\ pc = "filtered"
  /\ allItems' = <<>>
  /\ dedupedItems' = <<>>
  /\ pc' = IF dedupedItems = <<>> THEN "idle" ELSE "synth"
  /\ UNCHANGED runVars
  /\ UNCHANGED <<clock, ticks, runs, table, pushHistory, tableAtLoad,
                 tableBeforeRec, recorded, lastRecAt>>
  /\ UNCHANGED callVars

\* main 1319 and 1400-1401: the items pushed passed the snapshot's filter
StoreRecord ==
  /\ pc = "synth"
  /\ \E items \in SeqsUpTo(StoreItems, MaxBatch) :
       /\ items # <<>>
       /\ \A i \in 1..Len(items) : ~isItemPushedBefore(pushHistory, items[i])
       /\ table' = recordPushedItems(table, items, DIGEST_TYPE, clock)
       /\ recorded' = items
       /\ lastRecAt' = [u \in StoreUrls |->
                          IF \E i \in 1..Len(items) : items[i].url = u
                          THEN clock ELSE lastRecAt[u]]
  /\ tableBeforeRec' = table
  /\ pc' = "idle"
  /\ UNCHANGED runVars
  /\ UNCHANGED <<clock, ticks, runs, pushHistory, allItems, dedupedItems,
                 tableAtLoad>>
  /\ UNCHANGED callVars

\* a run that pushes nothing
StoreEnd ==
  /\ pc = "synth"
  /\ pc' = "idle"
  /\ UNCHANGED runVars
  /\ UNCHANGED <<clock, ticks, runs, table, pushHistory, allItems,
                 dedupedItems, tableAtLoad, tableBeforeRec, recorded, lastRecAt>>
  /\ UNCHANGED callVars

NextStore ==
  StoreTick \/ StoreLoad \/ StorePreDedup \/ StoreSynth \/ StoreRecord \/ StoreEnd

SpecStore == InitStore /\ [][NextStore]_vars

(***************************************************************************)
(* Claims about the push-history store (checked under SpecStore)           *)
(***************************************************************************)

RowsOf(tbl) == {tbl[k] : k \in 1..Len(tbl)}
InSeq(x, seq) == \E k \in 1..Len(seq) : seq[k] = x
UniqueUrlHash(tbl) ==
  \A i, j \in 1..Len(tbl) : i # j => tbl[i].url_hash # tbl[j].url_hash

\* C1: once recordPushedItems has been called at time T with an item whose URL
\* is u, every later pre-dedup run whose 72-hour window covers T (T >= now - 72)
\* leaves no item with URL u in its output.
C1_SuppressionMonotonic ==
  pc = "filtered" =>
    \A i \in 1..Len(allItems) :
      LET u == allItems[i].url
      IN  (lastRecAt[u] >= 0 /\ lastRecAt[u] >= clock - SuppressHours)
          => ~\E j \in 1..Len(dedupedItems) : dedupedItems[j].url = u

\* The item at position i of the batch reaches the history check: it is not
\* stale and no earlier non-stale item has its batch-local URL key.
ReachesHistoryCheck(batch, i, now) ==
  LET Stale(it) == it.pubDate.present /\ it.pubDate.valid
                   /\ (now - it.pubDate.at) > MAX_ARTICLE_AGE_HOURS
  IN  /\ ~Stale(batch[i])
      /\ \A j \in 1..(i - 1) :
           Stale(batch[j]) \/ batch[j].url = NoUrl
           \/ batchNormUrl(batch[j].url) # batchNormUrl(batch[i].url)

HashesOf(items) == {urlHashOf(items[i]) : i \in 1..Len(items)}
TableHashes(tbl) == {tbl[k].url_hash : k \in 1..Len(tbl)}

\* C4: the table holds at most one row per url_hash; recording an item whose
\* url_hash is already present (in the table or earlier in the batch) adds no
\* row and leaves the present row as it is; recording the same items again
\* leaves the table as it is.
C4_UniqueAndIdempotent ==
  /\ UniqueUrlHash(table)
  /\ recorded # <<>> =>
       /\ recordPushedItems(table, recorded, DIGEST_TYPE, clock) = table
       /\ Len(table) = Len(tableBeforeRec)
            + Cardinality(HashesOf(recorded) \ TableHashes(tableBeforeRec))
       /\ \A k \in 1..Len(tableBeforeRec) : table[k] = tableBeforeRec[k]

\* C4 witness: a call recorded two items of one url_hash that the table
\* already held.
C4_Witness ==
  /\ recorded # <<>>
  /\ \E i, j \in 1..Len(recorded) :
       /\ i < j
       /\ urlHashOf(recorded[i]) = urlHashOf(recorded[j])
       /\ urlHashOf(recorded[i]) \in TableHashes(tableBeforeRec)

\* The rows of tbl at or past the retention horizon of 7 days at time now
Expired(tbl, now) == {r \in RowsOf(tbl) : r.pushed_at < now - 7 * 24}

\* C18: a stored row never changes while it exists: a step either leaves the
\* table alone, or inserts rows with url hashes that were not stored and
\* keeps every stored row as it is, or deletes exactly the rows older than
\* the retention horizon and keeps the others as they are; recording a url
\* that is stored leaves its row, pushed_at included, unchanged
C18_RowsImmutable ==
  [][\/ /\ RowsOf(table) \subseteq RowsOf(table')
        /\ \A r \in RowsOf(table') \ RowsOf(table) :
             r.url_hash \notin {q.url_hash : q \in RowsOf(table)}
     \/ /\ RowsOf(table') = RowsOf(table) \ Expired(table, clock)
        /\ Expired(table, clock) # {}]_vars

\* a url stored by an earlier run was recorded again and its row still
\* carries the first pushed_at
C18_Witness ==
  /\ pc = "idle"
  /\ \E i \in 1..Len(recorded) :
       \E r \in RowsOf(table) \cap RowsOf(tableBeforeRec) :
         /\ r.url_hash = urlHashOf(recorded[i])
         /\ lastRecAt[recorded[i].url] = clock
         /\ r.pushed_at < clock

(***************************************************************************)
(* generateDigest on its own: the model composes a reply item by item and  *)
(* generateDigest parses, validates and deduplicates it.                   *)
(***************************************************************************)

MaxReply == 5

HotCap == 4

ReplyForms == {"array", "fenced", "prose", "object", "text"}

R1 == Synth(T_abcd, UrlOf("a"), "s", HOT)
R2 == Synth(T_efgh, UrlOf("b"), "s", HOT)
R3 == Synth(T_ijkl, UrlOf("c"), "s", HOT)
R4 == Synth(T_mnop, UrlOf("d"), "s", HOT)
R5 == Synth(T_qrst, UrlOf("e"), "s", HOT)

DigestReplyItems == {R1, R2, R3, R4, R5}

DigestInputs ==
  { <<Fetched(T_abcd, UrlOf("a"), NoDate), Fetched(T_efgh, UrlOf("b"), NoDate)>>,
    <<Fetched(T_abcd, UrlOf("a"), NoDate), Fetched(T_efgh, UrlOf("b"), NoDate),
      Fetched(T_ijkl, UrlOf("c"), NoDate), Fetched(T_mnop, UrlOf("d"), NoDate)>> }

InitDigest ==
  /\ clock = 0
  /\ ticks = 0
  /\ runs = 0
  /\ table = <<>>
  /\ pc = "compose"
  /\ pushHistory = EmptyHistory
  /\ allItems = <<>>
  /\ dedupedItems \in DigestInputs
  /\ tableAtLoad = <<>>
  /\ tableBeforeRec = <<>>
  /\ recorded = <<>>
  /\ lastRecAt = [u \in StoreUrls |-> -1]
  /\ feishuWebhook = TRUE
  /\ deepMode = FALSE
  /\ exitCode = -1
  /\ sources = <<>>
  /\ fetchLog = <<>>
  /\ pushDb = FALSE
  /\ rawContent \in {[form |-> f, items |-> <<>>] : f \in ReplyForms}
  /\ content = NoContent
  /\ metadata = NoMetadata
  /\ deepAppended = FALSE
  /\ handed = <<>>
  /\ sent = <<>>
  /\ pushedItems = <<>>
  /\ events = {}
  /\ CallIdle

\* callDeepSeek 760-791: the reply is whatever the model writes; one more item
DigestCompose ==
  /\ pc = "compose"
  /\ rawContent.form # "text"
  /\ rawContent.form = "object" => rawContent.items = <<>>
  /\ Len(rawContent.items) < MaxReply
  /\ \E it \in DigestReplyItems :
       rawContent' = [rawContent EXCEPT !.items = Append(@, it)]
  /\ UNCHANGED <<content, metadata>>
  /\ UNCHANGED <<feishuWebhook, deepMode, exitCode, sources, fetchLog, pushDb,
                 deepAppended, handed, sent, pushedItems, events>>
  /\ UNCHANGED storeVars
  /\ UNCHANGED callVars

\* generateDigest 973-1033 on the reply
DigestGenerate ==
  /\ pc = "compose"
  /\ rawContent.form = "text" \/ rawContent.items # <<>>
  /\ LET d == generateDigest(rawContent)
     IN  /\ content' = d.content
         /\ metadata' = d.metadata
  /\ pc' = "done"
  /\ UNCHANGED <<feishuWebhook, deepMode, exitCode, sources, fetchLog, pushDb,
                 rawContent, deepAppended, handed, sent, pushedItems, events>>
  /\ UNCHANGED <<clock, ticks, runs, table, pushHistory, allItems, dedupedItems,
                 tableAtLoad, tableBeforeRec, recorded, lastRecAt>>
  /\ UNCHANGED callVars

NextDigest == DigestCompose \/ DigestGenerate

SpecDigest == InitDigest /\ [][NextDigest]_vars

(***************************************************************************)
(* Claims about generateDigest (checked under SpecDigest)                  *)
(***************************************************************************)

InputUrls == {dedupedItems[j].url : j \in 1..Len(dedupedItems)}

\* C7: every item of the structured result carries a url that is the url of
\* one of the fetched items that were given to generateDigest
C7_NoFabricatedUrl ==
  (pc = "done" /\ metadata.defined) =>
    \A i \in 1..Len(metadata.items) : metadata.items[i].url \in InputUrls

\* C8: the structured result holds at most four items of the category
\* "重要动态"
C8_HotCap ==
  (pc = "done" /\ metadata.defined) =>
    Cardinality({i \in 1..Len(metadata.items) :
                   metadata.items[i].category = HOT}) <= HotCap

(***************************************************************************)
(* One run of main, from loading the sources to the exit of the process.   *)
(* Each action is the code between two awaits. events collects what has    *)
(* happened on the way.                                                    *)
(***************************************************************************)

MaxSources == 2
MaxRunReply == 2

\* The hours since the prior rows were written: inside and outside the
\* suppression window
RunClocks == {10, 100}

AllSources == <<[name |-> "s1", type |-> "rss"],
                [name |-> "s2", type |-> "hackernews"],
                [name |-> "s3", type |-> "podcast"]>>

SupportedTypes == {"rss", "atom", "digest_feed", "hackernews", "reddit",
                   "github_trending", "twitter_feed", "twitter_list"}

F1 == Fetched(T_abcd, UrlOf("a"), NoDate)
F2 == Fetched(T_efgh, UrlOf("b"), NoDate)
F3 == Fetched(T_ijkl, UrlWwwOf("b"), DateAt(0))

Feeds == {<<>>, <<F1>>, <<F3>>, <<F2, F3>>}

S1 == Synth(T_abcd, UrlOf("a"), "s", HOT)
S2 == Synth(T_efgh, UrlOf("b"), "s", GENERAL)
S3 == Synth(T_abcd, NoUrl, "s", GENERAL)

RunReplyItems == {S1, S2, S3}

\* Lengths of the model's text in characters: a reply that carries items is
\* short, a reply without JSON is just under, at and just over the limit of a
\* plain-text message
ItemReplyChars == 600
TextReplyChars == {3900, 4000, 4001}

RunReplies ==
  {[form |-> f, items |-> s, chars |-> ItemReplyChars] :
     f \in {"array", "prose"},
     s \in SeqsUpTo(RunReplyItems, MaxRunReply) \ {<<>>}}
  \cup {[form |-> "text", items |-> <<>>, chars |-> n] : n \in TextReplyChars}

PriorTables == {<<>>, recordPushedItems(<<>>, <<S1>>, DIGEST_TYPE, 0)}

NoItem == Synth(<<>>, NoUrl, "", GENERAL)

\* main 1254: { ...item, _sourceName: source.name }
Annotate(item, source) ==
  [title |-> item.title, url |-> item.url, pubDate |-> item.pubDate,
   sourceName |-> source.name]

\* fetchSource 619-652: what a call can do: throw, or return items; a type
\* the switch does not know returns []
FetchOutcomes(source) ==
  IF source.type \in SupportedTypes
  THEN {[threw |-> TRUE, items |-> <<>>]}
       \cup {[threw |-> FALSE, items |-> f] : f \in Feeds}
  ELSE {[threw |-> FALSE, items |-> <<>>]}

\* The fetch loop without the try/catch of 1250-1258: a throw leaves main
AfterFetchAborting(threw, i, n, merged) ==
  IF threw THEN "exit1"
  ELSE IF i < n THEN "fetch"
  ELSE IF merged = <<>> THEN "exit1" ELSE "history"

\* main 1248-1264, where the run is after the call of source number i of n
\* with merged the items collected so far; the try/catch of 1250-1258 keeps a
\* throw inside the iteration
AfterFetch(threw, i, n, merged) ==
  IF i < n THEN "fetch"
  ELSE IF merged = <<>> THEN "exit1" ELSE "history"

\* A variant that goes on to the push whatever the status
AfterPersistAlwaysPush(status) == "push"

\* main 1367 and 1404-1407: where the run goes on the status of POST /api/digests
AfterPersist(status) == IF status = 201 THEN "push" ELSE "exit1"

\* pushedItems taken from metadata.items whether or not a webhook is set
DistributionIgnoringWebhook(webhook, meta, cont, deep) ==
  IF meta.items # <<>> THEN [mode |-> IF webhook THEN "structured" ELSE "none",
                             items |-> meta.items]
  ELSE [mode |-> "none", items |-> <<>>]

\* main 1372-1397: what is distributed and what pushedItems becomes
Distribution(webhook, meta, cont, deep) ==
  IF ~webhook THEN [mode |-> "none", items |-> <<>>]
  ELSE IF meta.items # <<>> THEN [mode |-> "structured", items |-> meta.items]
  ELSE IF tryRescueJsonItems(cont, deep) # <<>>
       THEN [mode |-> "rescued", items |-> tryRescueJsonItems(cont, deep)]
       ELSE [mode |-> "text", items |-> <<>>]

\* sendFeishuArticles 336-359: the header card, then one card per item; oks[k]
\* is what postFeishu returned for message k
sendFeishuArticles(items, oks) ==
  <<[kind |-> "header", item |-> NoItem, ok |-> oks[1]]>>
  \o [i \in 1..Len(items) |-> [kind |-> "item", item |-> items[i], ok |-> oks[i + 1]]]

\* The section generateDeepSummaries returns: a rule of 50 characters, two
\* heading lines and at least one article summary
DeepSectionChars == 400

\* main 1353: content + '\n\n' + deepSection, as a number of characters
bodyChars(cont, deep) ==
  cont.raw.chars + (IF deep THEN 2 + DeepSectionChars ELSE 0)

TextLimit == 4000

\* A text is [chars, marker]: the first chars characters of the digest body,
\* followed by the truncation marker or not
notificationTextNeverCut(n) == [chars |-> n, marker |-> FALSE]

\* sendFeishuNotification 364-366
notificationText(n) ==
  IF n > TextLimit THEN [chars |-> TextLimit, marker |-> TRUE]
  ELSE [chars |-> n, marker |-> FALSE]

\* sendFeishuNotification 362-379
sendFeishuNotification(n, oks) ==
  <<[kind |-> "text", item |-> NoItem, ok |-> oks[1], text |-> notificationText(n)]>>

\* The messages a distribution makes
MessageCount(d) ==
  IF d.mode \in {"structured", "rescued"} THEN Len(d.items) + 1
  ELSE IF d.mode = "text" THEN 1 ELSE 0

\* generateDeepSummaries 1128-1141: the digest body holds a link
HasLink(cont) ==
  \/ cont.kind = "markdown"
  \/ cont.raw.form = "text"
  \/ \E i \in 1..Len(cont.raw.items) : cont.raw.items[i].url # NoUrl

storeOnly == <<ticks, runs, tableBeforeRec, recorded, lastRecAt>>
config == <<clock, feishuWebhook, deepMode, tableAtLoad>>

Init ==
  /\ clock \in RunClocks
  /\ table \in PriorTables
  /\ tableAtLoad = table
  /\ feishuWebhook \in BOOLEAN
  /\ deepMode \in BOOLEAN
  /\ pc = "start"
  /\ ticks = 0
  /\ runs = 0
  /\ pushHistory = EmptyHistory
  /\ allItems = <<>>
  /\ dedupedItems = <<>>
  /\ tableBeforeRec = <<>>
  /\ recorded = <<>>
  /\ lastRecAt = [u \in StoreUrls |-> -1]
  /\ RunIdle
  /\ CallIdle

\* process.exit(code)
Exit(code) == pc' = "done" /\ exitCode' = code

\* main 1237-1243: loadSources throws, or returns the active sources
LoadSources ==
  /\ pc = "start"
  /\ \/ /\ events' = events \cup {"loadSourcesThrew"}
        /\ Exit(1)
        /\ UNCHANGED sources
     \/ \E n \in 0..MaxSources :
          /\ sources' = SubSeq(AllSources, 1, n)
          /\ events' = events
          /\ IF n = 0 THEN Exit(0) ELSE pc' = "fetch" /\ exitCode' = exitCode
  /\ UNCHANGED <<fetchLog, pushDb, rawContent, content, metadata, deepAppended,
                 handed, sent, pushedItems>>
  /\ UNCHANGED <<table, pushHistory, allItems, dedupedItems>>
  /\ UNCHANGED <<storeOnly, config>>
  /\ UNCHANGED callVars

\* main 1248-1265: one iteration of the fetch loop; after the last one the
\* check for an empty allItems
FetchSource ==
  /\ pc = "fetch"
  /\ LET i == Len(fetchLog) + 1
     IN  \E out \in FetchOutcomes(sources[i]) :
           LET merged == allItems \o
                 [k \in 1..Len(out.items) |-> Annotate(out.items[k], sources[i])]
               next == AfterFetch(out.threw, i, Len(sources), merged)
           IN  /\ fetchLog' = Append(fetchLog, out)
               /\ allItems' = merged
               /\ IF next = "exit1"
                  THEN /\ Exit(1)
                       /\ events' = events \cup {"noItemsFetched"}
                  ELSE /\ pc' = next
                       /\ UNCHANGED <<exitCode, events>>
  /\ UNCHANGED <<sources, pushDb, rawContent, content, metadata, deepAppended,
                 handed, sent, pushedItems>>
  /\ UNCHANGED <<table, pushHistory, dedupedItems>>
  /\ UNCHANGED <<storeOnly, config>>
  /\ UNCHANGED callVars

\* A run that calls generateDigest whatever the pre-dedup loop left
AfterPreDedupNoSkip(kept) == "synth"

\* main 1305-1309: where the run goes with what the pre-dedup loop left
AfterPreDedup(kept) == IF kept = <<>> THEN "exit0" ELSE "synth"

\* main 1268-1309: open the store, load the snapshot, prune, pre-dedup
LoadHistoryAndPreDedup ==
  /\ pc = "history"
  /\ \E opened, readOk, cleanOk \in BOOLEAN :
       /\ ~opened => (readOk /\ cleanOk)
       /\ LET history == IF opened
                         THEN loadPushedHistory(table, SuppressHours, clock, readOk)
                         ELSE EmptyHistory
              kept == PreDedup(allItems, opened, history, clock).dedupedItems
          IN  /\ pushDb' = opened
              /\ pushHistory' = history
              /\ table' = IF opened
                          THEN cleanOldPushedItems(table, RetentionDays, clock, cleanOk)
                          ELSE table
              /\ dedupedItems' = kept
              /\ events' = events
                   \cup (IF opened THEN {} ELSE {"historyOpenFailed"})
                   \cup (IF readOk THEN {} ELSE {"historyReadFailed"})
                   \cup (IF cleanOk THEN {} ELSE {"pruneFailed"})
              /\ IF AfterPreDedup(kept) = "exit0" THEN Exit(0)
                 ELSE pc' = "synth" /\ exitCode' = exitCode
  /\ fetchLog' = <<>>
  /\ UNCHANGED <<sources, rawContent, content, metadata, deepAppended,
                 handed, sent, pushedItems>>
  /\ UNCHANGED allItems
  /\ UNCHANGED <<storeOnly, config>>
  /\ UNCHANGED callVars

\* metadata.items left as generateDigest returned them
PostDedupUnfiltered(db, history, items) == items

\* main 1317-1319: metadata.items after the filter against the snapshot
PostDedup(db, history, items) ==
  LET Fresh(it) == ~isItemPushedBefore(history, it)
  IN  IF db /\ items # <<>> THEN SelectSeq(items, Fresh) ELSE items

\* main 1313-1346: generateDigest throws (the request fails or the reply is
\* empty), or returns; then the post-generation filter
Synthesize ==
  /\ pc = "synth"
  /\ \/ /\ events' = events \cup {"synthesisFailed"}
        /\ Exit(1)
        /\ UNCHANGED <<rawContent, content, metadata>>
     \/ \E raw \in RunReplies :
          LET d == generateDigest(raw)
              kept == PostDedup(pushDb, pushHistory, d.metadata.items)
          IN  /\ rawContent' = raw
              /\ metadata' = [d.metadata EXCEPT !.items = kept]
              /\ content' = IF Len(kept) < Len(d.metadata.items) /\ kept # <<>>
                            THEN [d.content EXCEPT !.items = kept]
                            ELSE d.content
              /\ events' = events \cup {"synthesized"}
              /\ IF d.metadata.defined /\ kept = <<>> THEN Exit(0)
                 ELSE /\ pc' = IF deepMode THEN "deep" ELSE "persist"
                      /\ exitCode' = exitCode
  /\ UNCHANGED <<sources, fetchLog, pushDb, deepAppended, handed, sent, pushedItems>>
  /\ UNCHANGED <<table, pushHistory, allItems, dedupedItems>>
  /\ UNCHANGED <<storeOnly, config>>
  /\ UNCHANGED callVars

\* main 1349-1357: generateDeepSummaries throws (a summarizeArticle request
\* fails), returns null, or returns a section that is appended
Deep ==
  /\ pc = "deep"
  /\ \/ /\ HasLink(content)
        /\ events' = events \cup {"deepFailed"}
        /\ Exit(1)
        /\ UNCHANGED deepAppended
     \/ /\ HasLink(content)
        /\ deepAppended' = TRUE
        /\ pc' = "persist"
        /\ UNCHANGED <<events, exitCode>>
     \/ /\ pc' = "persist"
        /\ UNCHANGED <<deepAppended, events, exitCode>>
  /\ UNCHANGED <<sources, fetchLog, pushDb, rawContent, content, metadata,
                 handed, sent, pushedItems>>
  /\ UNCHANGED <<table, pushHistory, allItems, dedupedItems>>
  /\ UNCHANGED <<storeOnly, config>>
  /\ UNCHANGED callVars

\* localPost 382-406: the request is rejected, or resolves with a status
PersistOutcomes == {[rejected |-> TRUE, status |-> 0],
                    [rejected |-> FALSE, status |-> 201],
                    [rejected |-> FALSE, status |-> 500]}

\* main 1361-1367 and 1404-1408
Persist ==
  /\ pc = "persist"
  /\ \E res \in PersistOutcomes :
       /\ events' = events \cup (IF ~res.rejected /\ res.status = 201
                                 THEN {"persisted"} ELSE {"persistFailed"})
       /\ IF res.rejected \/ AfterPersist(res.status) = "exit1"
          THEN Exit(1)
          ELSE pc' = AfterPersist(res.status) /\ exitCode' = exitCode
  /\ UNCHANGED <<sources, fetchLog, pushDb, rawContent, content, metadata,
                 deepAppended, handed, sent, pushedItems>>
  /\ UNCHANGED <<table, pushHistory, allItems, dedupedItems>>
  /\ UNCHANGED <<storeOnly, config>>
  /\ UNCHANGED callVars

\* The items whose card the webhook accepted; oks[i + 1] answers item i
Delivered(items, oks) ==
  LET pairs == [i \in 1..Len(items) |-> <<items[i], oks[i + 1]>>]
      Accepted(pr) == pr[2]
      kept == SelectSeq(pairs, Accepted)
  IN  [i \in 1..Len(kept) |-> kept[i][1]]

\* A variant of the push step that records only the delivered items
PushRecordingDelivered ==
  /\ pc = "push"
  /\ LET d == Distribution(feishuWebhook, metadata, content, deepAppended)
         records == pushDb /\ d.items # <<>>
     IN  \E oks \in [1..MessageCount(d) -> BOOLEAN], recOk \in BOOLEAN :
           /\ ~records => recOk
           /\ handed' = IF d.mode \in {"structured", "rescued"} THEN d.items ELSE <<>>
           /\ sent' = IF d.mode \in {"structured", "rescued"}
                      THEN sendFeishuArticles(d.items, oks)
                      ELSE IF d.mode = "text"
                      THEN sendFeishuNotification(
                             bodyChars(content, deepAppended), oks)
                      ELSE <<>>
           /\ pushedItems' = Delivered(d.items, oks)
           /\ table' = IF records /\ recOk
                       THEN recordPushedItems(table, Delivered(d.items, oks),
                                              DIGEST_TYPE, clock)
                       ELSE table
           /\ events' = events
                \cup (IF \E k \in 1..MessageCount(d) : ~oks[k]
                      THEN {"sendFailed"} ELSE {})
                \cup (IF recOk THEN {} ELSE {"recordThrew"})
           /\ Exit(IF recOk THEN 0 ELSE 1)
  /\ UNCHANGED <<sources, fetchLog, pushDb, rawContent, content, metadata,
                 deepAppended>>
  /\ UNCHANGED <<pushHistory, allItems, dedupedItems>>
  /\ UNCHANGED <<storeOnly, config>>
  /\ UNCHANGED callVars

\* main 1372-1410: distribute to the webhook, then record pushedItems;
\* recordPushedItems runs in one transaction, so a throw leaves the table as
\* it was and reaches main().catch
Push ==
  /\ pc = "push"
  /\ LET d == Distribution(feishuWebhook, metadata, content, deepAppended)
         records == pushDb /\ d.items # <<>>
     IN  \E oks \in [1..MessageCount(d) -> BOOLEAN], recOk \in BOOLEAN :
           /\ ~records => recOk
           /\ handed' = IF d.mode \in {"structured", "rescued"} THEN d.items ELSE <<>>
           /\ sent' = IF d.mode \in {"structured", "rescued"}
                      THEN sendFeishuArticles(d.items, oks)
                      ELSE IF d.mode = "text"
                      THEN sendFeishuNotification(
                             bodyChars(content, deepAppended), oks)
                      ELSE <<>>
           /\ pushedItems' = d.items
           /\ table' = IF records /\ recOk
                       THEN recordPushedItems(table, d.items, DIGEST_TYPE, clock)
                       ELSE table
           /\ events' = events
                \cup (IF \E k \in 1..MessageCount(d) : ~oks[k]
                      THEN {"sendFailed"} ELSE {})
                \cup (IF recOk THEN {} ELSE {"recordThrew"})
           /\ Exit(IF recOk THEN 0 ELSE 1)
  /\ UNCHANGED <<sources, fetchLog, pushDb, rawContent, content, metadata,
                 deepAppended>>
  /\ UNCHANGED <<pushHistory, allItems, dedupedItems>>
  /\ UNCHANGED <<storeOnly, config>>
  /\ UNCHANGED callVars

Next ==
  LoadSources \/ FetchSource \/ LoadHistoryAndPreDedup \/ Synthesize \/ Deep
    \/ Persist \/ Push

Spec == Init /\ [][Next]_vars

(***************************************************************************)
(* Claims about a run of main (checked under Spec)                         *)
(***************************************************************************)

\* The item messages attempted on the webhook
ItemMessages == {k \in 1..Len(sent) : sent[k].kind = "item"}

\* C2: every item sent to the webhook as an item message, in structured or
\* in rescued mode, is not suppressed by the snapshot the run loaded: its url
\* hash is not in urlHashes, its title hash is not in titleHashes and its
\* title is similar to no snapshot title
C2_SentNotSuppressed ==
  \A k \in ItemMessages :
    /\ urlHashOf(sent[k].item) \notin pushHistory.urlHashes
    /\ titleHashOf(sent[k].item) \notin pushHistory.titleHashes
    /\ \A j \in 1..Len(pushHistory.titles) :
         ~titlesAreSimilar(sent[k].item.title, pushHistory.titles[j])

\* The rows the run has added to pushed_items
AddedRows == RowsOf(table) \ RowsOf(tableAtLoad)

\* C5: the rows a run adds to the push history come from the items passed to
\* the webhook sender in that run, and a run in which synthesis throws or
\* which ends before the distribution stage adds none
C5_HistoryFromHanded ==
  /\ \A r \in AddedRows :
       \E k \in 1..Len(handed) :
         /\ r.url_hash = urlHashOf(handed[k])
         /\ r.title_hash = titleHashOf(handed[k])
         /\ r.title = handed[k].title
         /\ r.pushed_at = clock
  /\ AddedRows # {} =>
       /\ pc = "done"
       /\ "synthesisFailed" \notin events
       /\ {"synthesized", "persisted"} \subseteq events

\* a run recorded rows although a fetched candidate was not handed over
C5_Witness ==
  /\ pc = "done"
  /\ AddedRows # {}
  /\ \E j \in 1..Len(dedupedItems) :
       \A k \in 1..Len(handed) : dedupedItems[j].url # handed[k].url

\* The concatenation, in source order, of the items of the calls that did
\* not throw
RECURSIVE MergedItems(_, _, _)
MergedItems(log, srcs, i) ==
  IF i > Len(log) THEN <<>>
  ELSE (IF log[i].threw THEN <<>>
        ELSE [k \in 1..Len(log[i].items) |-> Annotate(log[i].items[k], srcs[i])])
       \o MergedItems(log, srcs, i + 1)

\* C6: whichever sources throw, the run calls every remaining source, the
\* merged list is the concatenation in source order of the items of the
\* sources that did not throw, and the run is not aborted by a throw
C6_SourceIsolation ==
  (pc \in {"fetch", "history"} \/ fetchLog # <<>>) =>
    /\ allItems = MergedItems(fetchLog, sources, 1)
    /\ \A i \in 1..Len(fetchLog) : fetchLog[i].threw => fetchLog[i].items = <<>>
    /\ pc # "fetch" => Len(fetchLog) = Len(sources)

\* a source threw and a later source still delivered its items
C6_Witness ==
  /\ pc = "history"
  /\ \E i, j \in 1..Len(fetchLog) :
       i < j /\ fetchLog[i].threw /\ fetchLog[j].items # <<>>
  /\ allItems # <<>>

\* C9: a run that found sources ends with a non-zero exit status if and only
\* if no item was fetched or the primary synthesis call failed; a run that
\* fetched items and synthesized a digest exits with 0 whatever happens in
\* persistence, webhook sends or history writes
C9_ExitStatus ==
  (pc = "done" /\ sources # <<>>) =>
    /\ exitCode # 0 <=> (allItems = <<>> \/ "synthesisFailed" \in events)
    /\ (allItems # <<>> /\ "synthesized" \in events) => exitCode = 0

StoreFailures == {"historyOpenFailed", "historyReadFailed", "pruneFailed",
                  "recordThrew"}
OtherFailures == {"loadSourcesThrew", "noItemsFetched", "synthesisFailed",
                  "deepFailed", "persistFailed"}

\* C10: a failure of the push-history store never fails the run: a store that
\* cannot be opened or read leaves the history sets empty, and a run in which
\* recordPushedItems or cleanOldPushedItems fails, and nothing else does, still
\* exits with 0, its digest persisted
C10_StoreFailureTolerated ==
  /\ (pc \in {"synth", "deep", "persist", "push", "done"}
        /\ events \cap {"historyOpenFailed", "historyReadFailed"} # {})
       => pushHistory = EmptyHistory
  /\ (pc = "done" /\ events \cap StoreFailures # {}
        /\ events \cap OtherFailures = {})
       => exitCode = 0
  /\ (pc = "done" /\ "recordThrew" \in events) => "persisted" \in events

(***************************************************************************)
(* The history lookup on its own: one item is recorded, the snapshot is    *)
(* loaded, and a second item goes through the pre-dedup loop.              *)
(* allItems = <<the recorded item, the probing item>>.                     *)
(***************************************************************************)

\* The spellings of one address: scheme, www., trailing slash, letter case
SpellingsOfA ==
  {[scheme |-> s, www |-> w, host |-> "example.com", path |-> "a",
    slash |-> sl, query |-> "", upper |-> up] :
     s \in {"http", "https"}, w \in BOOLEAN, sl \in BOOLEAN, up \in BOOLEAN}

\* A string new URL() rejects
BareUrl == [scheme |-> "", www |-> FALSE, host |-> "example.com", path |-> "a",
            slash |-> FALSE, query |-> "", upper |-> FALSE]

LookupUrls == SpellingsOfA \cup {UrlOf("b"), BareUrl, NoUrl}
LookupTitles == {T_abcd, T_Ab_cd, T_ab_cd, T_efgh, T_empty}
LookupItems == {Fetched(t, u, NoDate) : t \in LookupTitles, u \in LookupUrls}

InitLookup ==
  /\ clock = 0
  /\ ticks = 0
  /\ runs = 0
  /\ table = <<>>
  /\ pc = "drawn"
  /\ pushHistory = EmptyHistory
  /\ allItems \in {<<a, b>> : a \in LookupItems, b \in LookupItems}
  /\ dedupedItems = <<>>
  /\ tableAtLoad = <<>>
  /\ tableBeforeRec = <<>>
  /\ recorded = <<>>
  /\ lastRecAt = [u \in StoreUrls |-> -1]
  /\ feishuWebhook = TRUE
  /\ deepMode = FALSE
  /\ RunIdle
  /\ CallIdle

\* recordPushedItems 726-738 on the first item
LookupRecord ==
  /\ pc = "drawn"
  /\ table' = recordPushedItems(table, <<allItems[1]>>, DIGEST_TYPE, clock)
  /\ pc' = "recorded"
  /\ UNCHANGED runVars
  /\ UNCHANGED <<clock, ticks, runs, pushHistory, allItems, dedupedItems,
                 tableAtLoad, tableBeforeRec, recorded, lastRecAt>>
  /\ UNCHANGED callVars

\* loadPushedHistory 713-724
LookupLoad ==
  /\ pc = "recorded"
  /\ pushHistory' = loadPushedHistory(table, SuppressHours, clock, TRUE)
  /\ pc' = "loaded"
  /\ UNCHANGED runVars
  /\ UNCHANGED <<clock, ticks, runs, table, allItems, dedupedItems,
                 tableAtLoad, tableBeforeRec, recorded, lastRecAt>>
  /\ UNCHANGED callVars

\* main 1283-1299 on the second item: it is kept unless isItemPushedBefore
LookupProbe ==
  /\ pc = "loaded"
  /\ dedupedItems' = PreDedup(<<allItems[2]>>, TRUE, pushHistory, clock).dedupedItems
  /\ pc' = "probed"
  /\ UNCHANGED runVars
  /\ UNCHANGED <<clock, ticks, runs, table, pushHistory, allItems,
                 tableAtLoad, tableBeforeRec, recorded, lastRecAt>>
  /\ UNCHANGED callVars

NextLookup == LookupRecord \/ LookupLoad \/ LookupProbe

SpecLookup == InitLookup /\ [][NextLookup]_vars

(***************************************************************************)
(* Claims about the history lookup (checked under SpecLookup)              *)
(***************************************************************************)

\* Two URLs that differ at most in scheme, www., trailing slash and case
SameAddress(u, v) ==
  /\ u.scheme \in {"http", "https"}
  /\ v.scheme \in {"http", "https"}
  /\ u.host = v.host
  /\ u.path = v.path
  /\ u.query = v.query

\* C11: for two URLs that differ only in scheme, leading www., trailing
\* slashes or letter case, normalizeUrlForHash returns the same string and
\* hashStr the same url_hash, so the row recorded for one spelling suppresses
\* an item carrying the other
C11_SpellingsShareHash ==
  (pc = "probed" /\ SameAddress(allItems[1].url, allItems[2].url)) =>
    /\ normalizeUrlForHash(allItems[1].url) = normalizeUrlForHash(allItems[2].url)
    /\ urlHashOf(allItems[1]) = urlHashOf(allItems[2])
    /\ dedupedItems = <<>>

\* C12: isItemPushedBefore is true exactly when the item's normalized-URL
\* hash is in urlHashes, or its normalized-title hash is in titleHashes, or
\* its title is non-empty and similar to a title in titles; otherwise, also
\* for an empty url or title, it is false
C12_PushedBeforeExactly ==
  pc = "probed" =>
    LET item == allItems[2]
        byUrl == hashStr(normalizeUrlForHash(item.url)) \in pushHistory.urlHashes
        byTitle == hashStr(titleHashInput(item.title)) \in pushHistory.titleHashes
        bySimilar == /\ item.title # <<>>
                     /\ \E j \in 1..Len(pushHistory.titles) :
                          titlesAreSimilar(item.title, pushHistory.titles[j])
    IN  (dedupedItems = <<>>) <=> (byUrl \/ byTitle \/ bySimilar)

\* an item suppressed by title similarity alone
C12_Witness ==
  /\ pc = "probed"
  /\ dedupedItems = <<>>
  /\ urlHashOf(allItems[2]) \notin pushHistory.urlHashes
  /\ titleHashOf(allItems[2]) \notin pushHistory.titleHashes

(***************************************************************************)
(* sendFeishuArticles step by step: every await (a postFeishu call or a    *)
(* sleep) is one action. sent logs the sends and the sleeps in order.      *)
(***************************************************************************)

MaxSendItems == 3

\* What the webhook answers to one POST: the request throws, or the body
\* carries code and StatusCode (-1 when the field is absent)
FeishuResponses ==
  {[threw |-> t, code |-> c, StatusCode |-> sc] :
     t \in BOOLEAN, c \in {-1, 0, 19001}, sc \in {-1, 0}}

\* postFeishu 261-275
postFeishu(resp) == ~resp.threw /\ ~(resp.code # 0 /\ resp.StatusCode # 0)

\* sendFeishuArticles 346-356 with a loop that stops at the first failed card
AfterArticleCardAborting(ok, i, n) ==
  IF ok /\ i < n THEN "send.sleep" ELSE "send.report"

\* sendFeishuArticles 346-356: after the card of item i of n comes a sleep
\* unless it was the last one
AfterArticleCard(ok, i, n) == IF i < n THEN "send.sleep" ELSE "send.report"

Sleep == [kind |-> "sleep", item |-> NoItem, ok |-> TRUE]

\* The item cards sent so far
CardsSent(log) == Cardinality({k \in 1..Len(log) : log[k].kind = "item"})

InitSend ==
  /\ clock = 0
  /\ ticks = 0
  /\ runs = 0
  /\ table = <<>>
  /\ pc = "send.enter"
  /\ pushHistory = EmptyHistory
  /\ allItems = <<>>
  /\ dedupedItems = <<>>
  /\ tableAtLoad = <<>>
  /\ tableBeforeRec = <<>>
  /\ recorded = <<>>
  /\ lastRecAt = [u \in StoreUrls |-> -1]
  /\ feishuWebhook \in BOOLEAN
  /\ deepMode = FALSE
  /\ exitCode = -1
  /\ sources = <<>>
  /\ fetchLog = <<>>
  /\ pushDb = FALSE
  /\ rawContent = NoReply
  /\ content = NoContent
  /\ metadata = NoMetadata
  /\ deepAppended = FALSE
  /\ handed \in SeqsUpTo({S1, S2}, MaxSendItems)
  /\ sent = <<>>
  /\ pushedItems = <<>>
  /\ events = {}
  /\ call = [fn |-> "sendFeishuArticles"]
  /\ attempts = <<>>
  /\ outcome = Pending
  /\ okCount = 0

\* sendFeishuArticles 337: nothing to do without a webhook or without items
SendEnter ==
  /\ pc = "send.enter"
  /\ IF ~feishuWebhook \/ handed = <<>>
     THEN /\ pc' = "send.returned"
          /\ outcome' = [state |-> "returned", value |-> <<>>]
     ELSE /\ pc' = "send.header"
          /\ UNCHANGED outcome
  /\ UNCHANGED <<sent, okCount>>
  /\ UNCHANGED <<clock, ticks, runs, table, pushHistory, allItems, dedupedItems,
                 tableAtLoad, tableBeforeRec, recorded, lastRecAt>>
  /\ UNCHANGED <<feishuWebhook, deepMode, exitCode, sources, fetchLog, pushDb,
                 rawContent, content, metadata, deepAppended, handed,
                 pushedItems, events, call, attempts>>

\* sendFeishuArticles 341: the header card
SendHeaderCard ==
  /\ pc = "send.header"
  /\ \E resp \in FeishuResponses :
       sent' = Append(sent, [kind |-> "header", item |-> NoItem,
                             ok |-> postFeishu(resp)])
  /\ pc' = "send.sleep"
  /\ UNCHANGED <<outcome, okCount>>
  /\ UNCHANGED <<clock, ticks, runs, table, pushHistory, allItems, dedupedItems,
                 tableAtLoad, tableBeforeRec, recorded, lastRecAt>>
  /\ UNCHANGED <<feishuWebhook, deepMode, exitCode, sources, fetchLog, pushDb,
                 rawContent, content, metadata, deepAppended, handed,
                 pushedItems, events, call, attempts>>

\* sendFeishuArticles 343 and 355: await sleep(600)
SendSleep ==
  /\ pc = "send.sleep"
  /\ sent' = Append(sent, Sleep)
  /\ pc' = "send.card"
  /\ UNCHANGED <<outcome, okCount>>
  /\ UNCHANGED <<clock, ticks, runs, table, pushHistory, allItems, dedupedItems,
                 tableAtLoad, tableBeforeRec, recorded, lastRecAt>>
  /\ UNCHANGED <<feishuWebhook, deepMode, exitCode, sources, fetchLog, pushDb,
                 rawContent, content, metadata, deepAppended, handed,
                 pushedItems, events, call, attempts>>

\* sendFeishuArticles 346-354: the card of the next item
SendArticleCard ==
  /\ pc = "send.card"
  /\ LET i == CardsSent(sent) + 1
     IN  \E resp \in FeishuResponses :
           /\ sent' = Append(sent, [kind |-> "item", item |-> handed[i],
                                    ok |-> postFeishu(resp)])
           /\ okCount' = IF postFeishu(resp) THEN okCount + 1 ELSE okCount
           /\ pc' = AfterArticleCard(postFeishu(resp), i, Len(handed))
  /\ UNCHANGED outcome
  /\ UNCHANGED <<clock, ticks, runs, table, pushHistory, allItems, dedupedItems,
                 tableAtLoad, tableBeforeRec, recorded, lastRecAt>>
  /\ UNCHANGED <<feishuWebhook, deepMode, exitCode, sources, fetchLog, pushDb,
                 rawContent, content, metadata, deepAppended, handed,
                 pushedItems, events, call, attempts>>

\* sendFeishuArticles 358: the count is logged and the function returns
SendReport ==
  /\ pc = "send.report"
  /\ outcome' = [state |-> "returned", value |-> <<okCount, Len(handed)>>]
  /\ pc' = "send.returned"
  /\ UNCHANGED <<sent, okCount>>
  /\ UNCHANGED <<clock, ticks, runs, table, pushHistory, allItems, dedupedItems,
                 tableAtLoad, tableBeforeRec, recorded, lastRecAt>>
  /\ UNCHANGED <<feishuWebhook, deepMode, exitCode, sources, fetchLog, pushDb,
                 rawContent, content, metadata, deepAppended, handed,
                 pushedItems, events, call, attempts>>

NextSend ==
  SendEnter \/ SendHeaderCard \/ SendSleep \/ SendArticleCard \/ SendReport

SpecSend == InitSend /\ [][NextSend]_vars

(***************************************************************************)
(* Claims about sendFeishuArticles (checked under SpecSend)                *)
(***************************************************************************)

IsSend(m) == m.kind # "sleep"

\* C13: sendFeishuArticles on n >= 1 items makes exactly n + 1 send attempts,
\* the header card and then the items in order, with a sleep between
\* consecutive sends, whichever sends fail; the count it reports is the
\* number of item sends that succeeded, and no failure stops the rest
C13_HeaderThenEveryItem ==
  (pc = "send.returned" /\ feishuWebhook /\ handed # <<>>) =>
    LET n == Len(handed)
        sends == SelectSeq(sent, IsSend)
    IN  /\ Len(sends) = n + 1
        /\ sends[1].kind = "header"
        /\ \A i \in 1..n : sends[i + 1].kind = "item" /\ sends[i + 1].item = handed[i]
        /\ Len(sent) = 2 * n + 1
        /\ \A k \in 1..Len(sent) : (sent[k].kind = "sleep") <=> (k % 2 = 0)
        /\ outcome.state = "returned"
        /\ outcome.value[1] = Cardinality({i \in 1..n : sends[i + 1].ok})
        /\ outcome.value[2] = n

\* the header and the first of several cards failed, a later one succeeded
C13_Witness ==
  /\ pc = "send.returned"
  /\ Len(handed) >= 2
  /\ \E k \in 1..Len(sent) : sent[k].kind = "header" /\ ~sent[k].ok
  /\ \E j, k \in 1..Len(sent) :
       j < k /\ sent[j].kind = "item" /\ ~sent[j].ok /\ sent[k].kind = "item" /\ sent[k].ok

(***************************************************************************)
(* httpFetch and postJson: the attempt through the proxy and the direct    *)
(* attempt are one action each. An error is [threw, causeCode, code] with  *)
(* "" for a code that is absent.                                           *)
(***************************************************************************)

ConnectionCodes == {"ECONNRESET", "ECONNREFUSED", "ETIMEDOUT",
                    "UND_ERR_CONNECT_TIMEOUT", "UND_ERR_SOCKET"}

\* Codes of other errors: DNS failure, a TLS error, the AbortSignal.timeout
\* DOMException (code 23)
OtherCodes == {"ENOTFOUND", "ERR_TLS_CERT_ALTNAME_INVALID", "23"}

ErrorCodes == ConnectionCodes \cup OtherCodes \cup {""}

HttpResponse(status) == [threw |-> FALSE, status |-> status, causeCode |-> "",
                         code |-> ""]
HttpError(causeCode, code) == [threw |-> TRUE, status |-> 0,
                               causeCode |-> causeCode, code |-> code]

\* What one attempt(useProxy) can do
AttemptResults ==
  {HttpResponse(st) : st \in {200, 500}}
  \cup {HttpError(cc, c) : cc \in ErrorCodes, c \in ErrorCodes}

\* e.cause?.code || e.code || ''
codeOf(e) == IF e.causeCode # "" THEN e.causeCode ELSE e.code

\* A catch block that retries after every error
fallsBackAlways(e) == TRUE

\* httpFetch 202-206, postJson 242-246: the error sends the call to attempt(false)
fallsBack(e) == codeOf(e) \in ConnectionCodes

\* The promise settled with the result of an attempt
Settled(result) ==
  [state |-> IF result.threw THEN "threw" ELSE "returned", value |-> result]

InitHttp ==
  /\ clock = 0
  /\ ticks = 0
  /\ runs = 0
  /\ table = <<>>
  /\ pc = "http.enter"
  /\ pushHistory = EmptyHistory
  /\ allItems = <<>>
  /\ dedupedItems = <<>>
  /\ tableAtLoad = <<>>
  /\ tableBeforeRec = <<>>
  /\ recorded = <<>>
  /\ lastRecAt = [u \in StoreUrls |-> -1]
  /\ feishuWebhook = TRUE
  /\ deepMode = FALSE
  /\ RunIdle
  /\ call \in {[fn |-> f, proxy |-> p] : f \in {"httpFetch", "postJson"},
                                          p \in BOOLEAN}
  /\ attempts = <<>>
  /\ outcome = Pending
  /\ okCount = 0

\* httpFetch 196, postJson 237: no proxyDispatcher, return attempt(false)
HttpDirectOnly ==
  /\ pc = "http.enter"
  /\ ~call.proxy
  /\ \E res \in AttemptResults :
       /\ attempts' = Append(attempts, [via |-> "direct", result |-> res])
       /\ outcome' = Settled(res)
  /\ pc' = "http.done"
  /\ UNCHANGED <<call, okCount>>
  /\ UNCHANGED <<storeOnly, config>>
  /\ UNCHANGED <<table, pushHistory, allItems, dedupedItems>>
  /\ UNCHANGED <<exitCode, sources, fetchLog, pushDb, rawContent, content,
                 metadata, deepAppended, handed, sent, pushedItems, events>>

\* httpFetch 198-208, postJson 239-248: attempt(true) and the catch block
HttpViaProxy ==
  /\ pc = "http.enter"
  /\ call.proxy
  /\ \E res \in AttemptResults :
       /\ attempts' = Append(attempts, [via |-> "proxy", result |-> res])
       /\ IF res.threw /\ fallsBack(res)
          THEN /\ pc' = "http.direct"
               /\ UNCHANGED outcome
          ELSE /\ pc' = "http.done"
               /\ outcome' = Settled(res)
  /\ UNCHANGED <<call, okCount>>
  /\ UNCHANGED <<storeOnly, config>>
  /\ UNCHANGED <<table, pushHistory, allItems, dedupedItems>>
  /\ UNCHANGED <<exitCode, sources, fetchLog, pushDb, rawContent, content,
                 metadata, deepAppended, handed, sent, pushedItems, events>>

\* httpFetch 205, postJson 245: return attempt(false)
HttpDirectFallback ==
  /\ pc = "http.direct"
  /\ \E res \in AttemptResults :
       /\ attempts' = Append(attempts, [via |-> "direct", result |-> res])
       /\ outcome' = Settled(res)
  /\ pc' = "http.done"
  /\ UNCHANGED <<call, okCount>>
  /\ UNCHANGED <<storeOnly, config>>
  /\ UNCHANGED <<table, pushHistory, allItems, dedupedItems>>
  /\ UNCHANGED <<exitCode, sources, fetchLog, pushDb, rawContent, content,
                 metadata, deepAppended, handed, sent, pushedItems, events>>

NextHttp == HttpDirectOnly \/ HttpViaProxy \/ HttpDirectFallback

SpecHttp == InitHttp /\ [][NextHttp]_vars

(***************************************************************************)
(* Claims about httpFetch and postJson (checked under SpecHttp)            *)
(***************************************************************************)

\* The error code the catch block reads is one of reset, refused, timeout
\* or socket
ConnectionLevel(res) ==
  LET c == IF res.causeCode = "" THEN res.code ELSE res.causeCode
  IN  res.threw /\ c \in {"ECONNRESET", "ECONNREFUSED", "ETIMEDOUT",
                          "UND_ERR_CONNECT_TIMEOUT", "UND_ERR_SOCKET"}

\* C14: with a proxy a call makes at most two attempts, the first through the
\* proxy and, exactly when that one fails with a connection-level error, one
\* direct attempt whose result or error is the call's outcome; any other
\* error is rethrown with no retry; without a proxy there is exactly one
\* direct attempt
C14_ProxyThenOneDirect ==
  /\ Len(attempts) <= 2
  /\ pc = "http.done" =>
       /\ outcome = Settled(attempts[Len(attempts)].result)
       /\ ~call.proxy => (Len(attempts) = 1 /\ attempts[1].via = "direct")
       /\ call.proxy =>
            /\ attempts[1].via = "proxy"
            /\ Len(attempts) = 2 <=> ConnectionLevel(attempts[1].result)
            /\ Len(attempts) = 2 => attempts[2].via = "direct"

\* the proxy attempt was reset and the direct attempt's error is the outcome
C14_Witness ==
  /\ pc = "http.done"
  /\ call.proxy
  /\ Len(attempts) = 2
  /\ outcome.state = "threw"
  /\ outcome.value # attempts[1].result

(***************************************************************************)
(* fetchTwitterFeed and fetchTwitterList: every fetchRss call against an   *)
(* upstream is one action. The answer of an upstream is the item sequence  *)
(* fetchRss returns or the error it throws.                                *)
(***************************************************************************)

RSSHUB == "rsshub"

NITTER_INSTANCES == <<"nitter.privacydev.net", "nitter.poast.org",
                      "nitter.1d4.us", "nitter.moomoo.me", "nitter.net">>

RSSHUB_RETRIES == 3

RssItems(items) == [threw |-> FALSE, items |-> items]
RssError == [threw |-> TRUE, items |-> <<>>]

\* What one fetchRss call can do: throw, no item, some items
RssResults == {RssError, RssItems(<<>>), RssItems(<<F1>>), RssItems(<<F2, F3>>)}

NonEmpty(res) == ~res.threw /\ Len(res.items) > 0

\* An adapter configuration: the source's handle or list url is usable or
\* not, RSSHUB_URL is set or not
TwitterCalls ==
  {[fn |-> f, valid |-> v, rsshub |-> r] :
     f \in {"fetchTwitterFeed", "fetchTwitterList"}, v \in BOOLEAN,
     r \in BOOLEAN}

AttemptsAt(log, target) ==
  Cardinality({i \in 1..Len(log) : log[i].target = target})

NitterTried(log) ==
  Cardinality({i \in 1..Len(log) : log[i].target # RSSHUB})

\* fetchRssHubWithRetry 522-539: after attempt number k
AfterRssHub(res, k) ==
  IF NonEmpty(res) THEN "tw.return"
  ELSE IF k < RSSHUB_RETRIES THEN "tw.retrySleep"
  ELSE "tw.nitter"

\* A loop that gives up after the first instance
AfterNitterFirstOnly(res, i) ==
  IF NonEmpty(res) THEN "tw.return" ELSE "tw.warn"

\* fetchNitterRss 506-515: after instance number i
AfterNitter(res, i) ==
  IF NonEmpty(res) THEN "tw.return"
  ELSE IF i < Len(NITTER_INSTANCES) THEN "tw.nitter"
  ELSE "tw.warn"

InitTwitter ==
  /\ clock = 0
  /\ ticks = 0
  /\ runs = 0
  /\ table = <<>>
  /\ pc = "tw.enter"
  /\ pushHistory = EmptyHistory
  /\ allItems = <<>>
  /\ dedupedItems = <<>>
  /\ tableAtLoad = <<>>
  /\ tableBeforeRec = <<>>
  /\ recorded = <<>>
  /\ lastRecAt = [u \in StoreUrls |-> -1]
  /\ feishuWebhook = TRUE
  /\ deepMode = FALSE
  /\ RunIdle
  /\ call \in TwitterCalls
  /\ attempts = <<>>
  /\ outcome = Pending
  /\ okCount = 0

TwitterUnchanged ==
  /\ UNCHANGED <<call, okCount>>
  /\ UNCHANGED <<storeOnly, config>>
  /\ UNCHANGED <<table, pushHistory, allItems, dedupedItems>>
  /\ UNCHANGED <<exitCode, sources, fetchLog, pushDb, rawContent, content,
                 metadata, deepAppended, handed, sent, pushedItems>>

\* fetchTwitterFeed 543-547, fetchTwitterList 565-570: argument checks
TwitterEnter ==
  /\ pc = "tw.enter"
  /\ IF ~call.valid
     THEN /\ outcome' = [state |-> "threw", value |-> <<>>]
          /\ pc' = "tw.done"
     ELSE /\ UNCHANGED outcome
          /\ pc' = IF call.rsshub THEN "tw.rsshub" ELSE "tw.nitter"
  /\ UNCHANGED <<attempts, events>>
  /\ TwitterUnchanged

\* fetchRssHubWithRetry 523-538: one pass of the retry loop
RssHubAttempt ==
  /\ pc = "tw.rsshub"
  /\ \E res \in RssResults :
       /\ attempts' = Append(attempts, [target |-> RSSHUB, result |-> res])
       /\ pc' = AfterRssHub(res, AttemptsAt(attempts, RSSHUB) + 1)
  /\ UNCHANGED <<outcome, events>>
  /\ TwitterUnchanged

\* fetchRssHubWithRetry 527, 532: await sleep(RSSHUB_RETRY_DELAY)
RssHubRetrySleep ==
  /\ pc = "tw.retrySleep"
  /\ pc' = "tw.rsshub"
  /\ UNCHANGED <<attempts, outcome, events>>
  /\ TwitterUnchanged

\* fetchNitterRss 507-514: one pass of the instance loop
NitterAttempt ==
  /\ pc = "tw.nitter"
  /\ LET i == NitterTried(attempts) + 1
     IN  \E res \in RssResults :
           /\ attempts' = Append(attempts, [target |-> NITTER_INSTANCES[i],
                                            result |-> res])
           /\ pc' = AfterNitter(res, i)
  /\ UNCHANGED <<outcome, events>>
  /\ TwitterUnchanged

\* fetchTwitterFeed 549, 553: return the items of the upstream that answered
TwitterReturn ==
  /\ pc = "tw.return"
  /\ outcome' = [state |-> "returned",
                 value |-> attempts[Len(attempts)].result.items]
  /\ pc' = "tw.done"
  /\ UNCHANGED <<attempts, events>>
  /\ TwitterUnchanged

\* fetchTwitterFeed 555-561: warn and return []
TwitterWarn ==
  /\ pc = "tw.warn"
  /\ events' = events \cup {"warned"}
  /\ outcome' = [state |-> "returned", value |-> <<>>]
  /\ pc' = "tw.done"
  /\ UNCHANGED attempts
  /\ TwitterUnchanged

NextTwitter ==
  \/ TwitterEnter
  \/ RssHubAttempt
  \/ RssHubRetrySleep
  \/ NitterAttempt
  \/ TwitterReturn
  \/ TwitterWarn

\* The adapter is an async function: it takes its next step as soon as the
\* awaited fetchRss or sleep settles, and httpFetch settles within its
\* timeout
SpecTwitter == InitTwitter /\ [][NextTwitter]_vars /\ WF_vars(NextTwitter)

(***************************************************************************)
(* Claims about the Twitter adapters (checked under SpecTwitter)           *)
(***************************************************************************)

\* The upstreams in the order the claim gives them
TwitterPlan ==
  (IF call.rsshub THEN <<"rsshub", "rsshub", "rsshub">> ELSE <<>>)
  \o <<"nitter.privacydev.net", "nitter.poast.org", "nitter.1d4.us",
       "nitter.moomoo.me", "nitter.net">>

TwitterContract ==
  /\ Len(attempts) <= Len(TwitterPlan)
  /\ \A i \in 1..Len(attempts) : attempts[i].target = TwitterPlan[i]
  /\ \A i \in 1..(Len(attempts) - 1) :
       attempts[i].result.threw \/ attempts[i].result.items = <<>>
  /\ (pc = "tw.done" /\ call.valid) =>
       /\ outcome.state = "returned"
       /\ Len(attempts) > 0
       /\ LET last == attempts[Len(attempts)].result
          IN  IF ~last.threw /\ last.items # <<>>
              THEN outcome.value = last.items
              ELSE /\ Len(attempts) = Len(TwitterPlan)
                   /\ outcome.value = <<>>
                   /\ "warned" \in events

\* C15: with a valid handle or list url the adapter asks the configured
\* RSSHub at most three times, then each Nitter instance in list order,
\* returns the first non-empty result, always terminates, and returns the
\* empty sequence with a warning, without throwing, when every attempt fails
C15_BridgeThenMirrors == [](TwitterContract) /\ <>(pc = "tw.done")

\* every upstream failed or was empty: three RSSHub attempts and five Nitter
\* instances were asked and the adapter returned []
C15_Witness ==
  /\ pc = "tw.done"
  /\ call.valid
  /\ call.rsshub
  /\ Len(attempts) = 8
  /\ outcome = [state |-> "returned", value |-> <<>>]
  /\ \E i \in 1..8 : attempts[i].result.threw

\* The model's text was received and no candidate of it gives a valid item
RawFallback ==
  /\ "synthesized" \in events
  /\ FirstValid(jsonCandidates(rawContent)) = <<>>

\* C16: when the model's non-empty text yields no valid item, generateDigest
\* returns the raw text as the body with empty metadata and the run goes on
\* to the persist request; generateDigest fails only when no text was
\* received
C16_RawFallbackPersisted ==
  /\ RawFallback =>
       /\ content.kind = "raw"
       /\ content.raw = rawContent
       /\ metadata = NoMetadata
       /\ pc = "done" => events \cap {"persisted", "persistFailed"} # {}
  /\ "synthesisFailed" \in events =>
       ("synthesized" \notin events /\ content = NoContent)

\* sent is the header card followed by one card per element of items
IsCardsFor(items) ==
  /\ Len(sent) = Len(items) + 1
  /\ sent[1].kind = "header"
  /\ \A i \in 1..Len(items) :
       sent[i + 1].kind = "item" /\ sent[i + 1].item = items[i]

\* C17: a run with a webhook whose digest was persisted uses exactly one
\* distribution mode: cards for metadata.items when there are any; otherwise
\* cards for the items tryRescueJsonItems recovers from the body when there
\* are any; otherwise one plain-text message carrying the body when it has at
\* most 4000 characters, and else its first 4000 characters and the
\* truncation marker
C17_OneDistributionMode ==
  (pc = "done" /\ feishuWebhook /\ "persisted" \in events) =>
    IF metadata.items # <<>> THEN IsCardsFor(metadata.items)
    ELSE IF tryRescueJsonItems(content, deepAppended) # <<>>
         THEN IsCardsFor(tryRescueJsonItems(content, deepAppended))
         ELSE /\ Len(sent) = 1
              /\ sent[1].kind = "text"
              /\ LET n == bodyChars(content, deepAppended)
                 IN  sent[1].text = IF n <= 4000
                                    THEN [chars |-> n, marker |-> FALSE]
                                    ELSE [chars |-> 4000, marker |-> TRUE]

\* a body of 3900 characters grew past the limit by the deep section and was
\* sent as one truncated plain-text message
C17_Witness ==
  /\ pc = "done"
  /\ "persisted" \in events
  /\ deepAppended
  /\ content.raw.chars <= 4000
  /\ Len(sent) = 1
  /\ sent[1].kind = "text"
  /\ sent[1].text.marker

(***************************************************************************)
(* Claims about the stages of a run (checked under Spec)                   *)
(***************************************************************************)

\* C20: a run whose pre-dedup loop leaves no item calls no language model,
\* saves no digest, sends nothing to the webhook, adds no history row and
\* exits with 0
C20_NothingLeftSkips ==
  (pc = "done" /\ allItems # <<>> /\ dedupedItems = <<>>) =>
    /\ exitCode = 0
    /\ events \cap {"synthesized", "synthesisFailed", "deepFailed",
                    "persisted", "persistFailed", "sendFailed",
                    "recordThrew"} = {}
    /\ content = NoContent
    /\ metadata = NoMetadata
    /\ sent = <<>>
    /\ handed = <<>>
    /\ AddedRows = {}

\* every fetched item was older than the maximum age and the run has ended
C20_Witness ==
  /\ pc = "done"
  /\ allItems # <<>>
  /\ dedupedItems = <<>>
  /\ \A i \in 1..Len(allItems) : allItems[i].pubDate = DateAt(0)

\* The table holds a row for the item's URL
HasRow(item) == \E k \in 1..Len(table) : table[k].url_hash = urlHashOf(item)

\* The rows this run wrote
RowsOfRun == {k \in 1..Len(table) : table[k].pushed_at = clock}

\* C29: after a structured push, whichever of the header and item sends
\* failed, a card was attempted for every item of metadata.items and all of
\* them are handed to the push history for recording, so that with the store
\* open and the write done every one of them has its row; a run that sent the
\* plain-text message, or has no webhook, writes no row
C29_AttemptedItemsRecorded ==
  (pc = "done" /\ "persisted" \in events) =>
    /\ (feishuWebhook /\ metadata.items # <<>>) =>
         /\ IsCardsFor(metadata.items)
         /\ pushedItems = metadata.items
         /\ (pushDb /\ "recordThrew" \notin events) =>
              \A i \in 1..Len(metadata.items) : HasRow(metadata.items[i])
    /\ (~feishuWebhook \/ (sent # <<>> /\ sent[1].kind = "text")) =>
         RowsOfRun = {}

\* the header card and one of two item cards failed, and both items were
\* written to the table by this run
C29_Witness ==
  /\ pc = "done"
  /\ Len(metadata.items) = 2
  /\ Len(sent) = 3
  /\ ~sent[1].ok
  /\ ~sent[2].ok
  /\ sent[3].ok
  /\ Cardinality(RowsOfRun) = 2
  /\ \A i \in 1..2 : \E k \in RowsOfRun :
       table[k].url_hash = urlHashOf(metadata.items[i])

\* C30: a webhook message is sent and a history row written only after the
\* persist request returned 201; when it returns another status, or fails,
\* the run sends nothing, writes no row and ends with a failure status; the
\* request is made once: after its answer the run is never again about to
\* make it, and it has one answer
C30_PersistGatesPush ==
  /\ (sent # <<>> \/ RowsOfRun # {} \/ pushedItems # <<>>) =>
       "persisted" \in events
  /\ "persistFailed" \in events =>
       /\ sent = <<>>
       /\ RowsOfRun = {}
       /\ pc = "done"
       /\ exitCode = 1
  /\ events \cap {"persisted", "persistFailed"} # {} => pc # "persist"
  /\ ~({"persisted", "persistFailed"} \subseteq events)
  /\ pc = "push" => "persisted" \in events

\* the persist request was refused while two items were waiting to be pushed
\* to a configured webhook with the store open: nothing was sent or written
\* and the run ended with status 1
C30_Witness ==
  /\ pc = "done"
  /\ "persistFailed" \in events
  /\ feishuWebhook
  /\ pushDb
  /\ Len(metadata.items) = 2
  /\ sent = <<>>
  /\ RowsOfRun = {}
  /\ exitCode = 1

(***************************************************************************)
(* Two runs of main as two processes on one pushed_items table. In this    *)
(* specification the variables of a run are functions of the run: pc[r],   *)
(* pushHistory[r], allItems[r], dedupedItems[r], tableAtLoad[r],           *)
(* rawContent[r], content[r], metadata[r], handed[r], sent[r],             *)
(* pushedItems[r], exitCode[r], events[r]. A step is one SQL statement or  *)
(* transaction, or the code between two of them.                           *)
(***************************************************************************)

Runs == {1, 2}

TwoRunClocks == {10, 200}

\* What the sources gave a run
TwoRunBatches == {<<F1>>, <<F1, F2>>}

\* What the model answers a run
TwoRunReplies ==
  {[form |-> "array", items |-> s, chars |-> ItemReplyChars] :
     s \in {<<S1>>, <<S2>>, <<S1, S2>>, <<S1, S1>>, <<S3, S3>>}}
  \cup {[form |-> "text", items |-> <<>>, chars |-> 4000]}

InitTwoRuns ==
  /\ clock \in TwoRunClocks
  /\ table \in PriorTables
  /\ ticks = 0
  /\ runs = 0
  /\ pc = [r \in Runs |-> "history"]
  /\ pushHistory = [r \in Runs |-> EmptyHistory]
  /\ allItems \in [Runs -> TwoRunBatches]
  /\ dedupedItems = [r \in Runs |-> <<>>]
  /\ tableAtLoad = [r \in Runs |-> <<>>]
  /\ tableBeforeRec = <<>>
  /\ recorded = <<>>
  /\ lastRecAt = [u \in StoreUrls |-> -1]
  /\ feishuWebhook = TRUE
  /\ deepMode = FALSE
  /\ exitCode = [r \in Runs |-> -1]
  /\ sources = <<>>
  /\ fetchLog = <<>>
  /\ pushDb = TRUE
  /\ rawContent = [r \in Runs |-> NoReply]
  /\ content = [r \in Runs |-> NoContent]
  /\ metadata = [r \in Runs |-> NoMetadata]
  /\ deepAppended = FALSE
  /\ handed = [r \in Runs |-> <<>>]
  /\ sent = [r \in Runs |-> <<>>]
  /\ pushedItems = [r \in Runs |-> <<>>]
  /\ events = [r \in Runs |-> {}]
  /\ CallIdle

TwoRunsFixed ==
  /\ UNCHANGED <<storeOnly, clock, feishuWebhook, deepMode>>
  /\ UNCHANGED <<sources, fetchLog, pushDb, deepAppended, allItems>>
  /\ UNCHANGED callVars

\* main 1270: loadPushedHistory(pushDb, 72)
RunLoadHistory(r) ==
  /\ pc[r] = "history"
  /\ pushHistory' = [pushHistory EXCEPT ![r] =
                       loadPushedHistory(table, SuppressHours, clock, TRUE)]
  /\ tableAtLoad' = [tableAtLoad EXCEPT ![r] = table]
  /\ pc' = [pc EXCEPT ![r] = "prededup"]
  /\ UNCHANGED <<table, dedupedItems, exitCode, rawContent, content, metadata,
                 handed, sent, pushedItems, events>>
  /\ TwoRunsFixed

\* main 1272-1309: cleanOldPushedItems(pushDb, 7), then the pre-dedup loop
RunPreDedup(r) ==
  /\ pc[r] = "prededup"
  /\ LET kept == PreDedup(allItems[r], TRUE, pushHistory[r], clock).dedupedItems
     IN  /\ table' = cleanOldPushedItems(table, RetentionDays, clock, TRUE)
         /\ dedupedItems' = [dedupedItems EXCEPT ![r] = kept]
         /\ pc' = [pc EXCEPT ![r] = IF kept = <<>> THEN "done" ELSE "synth"]
         /\ exitCode' = [exitCode EXCEPT ![r] = IF kept = <<>> THEN 0 ELSE @]
  /\ UNCHANGED <<pushHistory, tableAtLoad, rawContent, content, metadata,
                 handed, sent, pushedItems, events>>
  /\ TwoRunsFixed

\* main 1313-1346 and 1360-1367: generateDigest, the post-generation filter,
\* and the digest saved with status 201
RunSynthesize(r) ==
  /\ pc[r] = "synth"
  /\ \E raw \in TwoRunReplies :
       LET d == generateDigest(raw)
           kept == PostDedup(TRUE, pushHistory[r], d.metadata.items)
           skip == d.metadata.defined /\ kept = <<>>
       IN  /\ rawContent' = [rawContent EXCEPT ![r] = raw]
           /\ metadata' = [metadata EXCEPT ![r] = [d.metadata EXCEPT !.items = kept]]
           /\ content' = [content EXCEPT ![r] =
                            IF Len(kept) < Len(d.metadata.items) /\ kept # <<>>
                            THEN [d.content EXCEPT !.items = kept]
                            ELSE d.content]
           /\ events' = [events EXCEPT ![r] = @ \cup {"synthesized"}]
           /\ pc' = [pc EXCEPT ![r] = IF skip THEN "done" ELSE "push"]
           /\ exitCode' = [exitCode EXCEPT ![r] = IF skip THEN 0 ELSE @]
  /\ UNCHANGED <<table, pushHistory, tableAtLoad, dedupedItems, handed, sent,
                 pushedItems>>
  /\ TwoRunsFixed

\* main 1371-1397: the cards or the text go to the webhook
RunSend(r) ==
  /\ pc[r] = "push"
  /\ LET d == Distribution(feishuWebhook, metadata[r], content[r], deepAppended)
     IN  \E oks \in [1..MessageCount(d) -> BOOLEAN] :
           /\ handed' = [handed EXCEPT ![r] = d.items]
           /\ sent' = [sent EXCEPT ![r] =
                         IF d.mode = "text"
                         THEN sendFeishuNotification(
                                bodyChars(content[r], deepAppended), oks)
                         ELSE sendFeishuArticles(d.items, oks)]
           /\ pushedItems' = [pushedItems EXCEPT ![r] = d.items]
  /\ pc' = [pc EXCEPT ![r] = "record"]
  /\ UNCHANGED <<table, pushHistory, tableAtLoad, dedupedItems, exitCode,
                 rawContent, content, metadata, events>>
  /\ TwoRunsFixed

\* main 1399-1410: recordPushedItems in one transaction, then the run ends
RunRecord(r) ==
  /\ pc[r] = "record"
  /\ table' = IF pushedItems[r] # <<>>
              THEN recordPushedItems(table, pushedItems[r], DIGEST_TYPE, clock)
              ELSE table
  /\ pc' = [pc EXCEPT ![r] = "done"]
  /\ exitCode' = [exitCode EXCEPT ![r] = 0]
  /\ UNCHANGED <<pushHistory, tableAtLoad, dedupedItems, rawContent, content,
                 metadata, handed, sent, pushedItems, events>>
  /\ TwoRunsFixed

NextTwoRuns ==
  \E r \in Runs :
    \/ RunLoadHistory(r)
    \/ RunPreDedup(r)
    \/ RunSynthesize(r)
    \/ RunSend(r)
    \/ RunRecord(r)

SpecTwoRuns == InitTwoRuns /\ [][NextTwoRuns]_vars

(***************************************************************************)
(* Claims about two interleaved runs (checked under SpecTwoRuns)           *)
(***************************************************************************)

\* The snapshot a SELECT over tbl gives at the time of the runs
SnapshotOf(tbl) ==
  LET recent == {k \in 1..Len(tbl) : tbl[k].pushed_at >= clock - 72}
  IN  [urlHashes |-> {tbl[k].url_hash : k \in recent},
       titleHashes |-> {tbl[k].title_hash : k \in recent}]

\* C19: each of two interleaved runs filters, before and after synthesis,
\* against the snapshot it loaded once and against nothing the other run
\* wrote later; in structured mode a run sends no url twice; no run fails;
\* the table holds at most one row per url_hash
C19_SnapshotPerRun ==
  /\ UniqueUrlHash(table)
  /\ \A r \in Runs :
       /\ exitCode[r] \in {-1, 0}
       /\ pc[r] # "history" =>
            /\ pushHistory[r].urlHashes = SnapshotOf(tableAtLoad[r]).urlHashes
            /\ pushHistory[r].titleHashes = SnapshotOf(tableAtLoad[r]).titleHashes
       /\ pc[r] \notin {"history", "prededup"} =>
            dedupedItems[r] =
              PreDedup(allItems[r], TRUE, pushHistory[r], clock).dedupedItems
       /\ \A i \in 1..Len(metadata[r].items) :
            ~isItemPushedBefore(pushHistory[r], metadata[r].items[i])
       /\ metadata[r].items # <<>> =>
            \A i, j \in 1..Len(sent[r]) :
              (i < j /\ sent[r][i].kind = "item" /\ sent[r][j].kind = "item")
                => sent[r][i].item.url # sent[r][j].item.url

\* both runs sent a card for the same item and the table holds one row for
\* it
C19_Witness ==
  /\ \A r \in Runs : pc[r] = "done" /\ metadata[r].items # <<>>
  /\ \E i \in 1..Len(sent[1]), j \in 1..Len(sent[2]) :
       /\ sent[1][i].kind = "item"
       /\ sent[2][j].kind = "item"
       /\ sent[1][i].item = sent[2][j].item
       /\ Cardinality({k \in 1..Len(table) :
                         table[k].url_hash = urlHashOf(sent[1][i].item)}) = 1

(***************************************************************************)
(* The parse cascade of generateDigest, one candidate per step: call holds *)
(* jsonCandidates, attempts the candidates consulted so far, outcome       *)
(* structuredItems.                                                        *)
(***************************************************************************)

MaxRepairItems == 2

V1 == Synth(T_abcd, UrlOf("a"), SumPlain, HOT)
V2(sm) == Synth(T_efgh, UrlOf("b"), sm, GENERAL)

WrittenSummaries ==
  {SumPlain, SumCurly, SumFullWidth, SumEscaped, SumBareOwnLine, SumBareShared}

\* Items the model may write: complete ones, and ones that lack a field
RepairItems ==
  {V1} \cup {V2(sm) : sm \in WrittenSummaries}
  \cup {Synth(T_ijkl, UrlOf("c"), "", GENERAL),
        Synth(T_ijkl, NoUrl, SumPlain, GENERAL),
        Synth(<<>>, UrlOf("c"), SumPlain, GENERAL)}

RepairReplies ==
  {[form |-> f, items |-> s] :
     f \in ReplyForms \ {"text", "object"},
     s \in SeqsUpTo(RepairItems, MaxRepairItems) \ {<<>>}}
  \cup {[form |-> "object", items |-> <<i>>] : i \in RepairItems}
  \cup {[form |-> "text", items |-> <<>>]}

InitRepair ==
  /\ clock = 0
  /\ ticks = 0
  /\ runs = 0
  /\ table = <<>>
  /\ pc = "cascade.build"
  /\ pushHistory = EmptyHistory
  /\ allItems = <<>>
  /\ dedupedItems = <<>>
  /\ tableAtLoad = <<>>
  /\ tableBeforeRec = <<>>
  /\ recorded = <<>>
  /\ lastRecAt = [u \in StoreUrls |-> -1]
  /\ feishuWebhook = TRUE
  /\ deepMode = FALSE
  /\ exitCode = -1
  /\ sources = <<>>
  /\ fetchLog = <<>>
  /\ pushDb = FALSE
  /\ rawContent \in RepairReplies
  /\ content = NoContent
  /\ metadata = NoMetadata
  /\ deepAppended = FALSE
  /\ handed = <<>>
  /\ sent = <<>>
  /\ pushedItems = <<>>
  /\ events = {}
  /\ CallIdle

RepairUnchanged ==
  /\ UNCHANGED <<okCount, rawContent, metadata>>
  /\ UNCHANGED <<storeOnly, config>>
  /\ UNCHANGED <<table, pushHistory, allItems, dedupedItems>>
  /\ UNCHANGED <<exitCode, sources, fetchLog, pushDb, deepAppended, handed,
                 sent, pushedItems, events>>

\* generateDigest 977-993: the base candidates and their repaired variants
RepairBuild ==
  /\ pc = "cascade.build"
  /\ call' = [fn |-> "generateDigest", candidates |-> jsonCandidates(rawContent)]
  /\ pc' = "cascade.try"
  /\ UNCHANGED <<attempts, outcome, content>>
  /\ RepairUnchanged

\* generateDigest 995-1005: one pass of the loop over jsonCandidates
RepairTry ==
  /\ pc = "cascade.try"
  /\ LET k == Len(attempts) + 1
         cand == call.candidates[k]
         valid == IF cand.parses THEN SelectSeq(cand.items, IsValidItem)
                  ELSE <<>>
     IN  /\ attempts' = Append(attempts, cand)
         /\ IF valid # <<>>
            THEN /\ outcome' = [state |-> "returned", value |-> valid]
                 /\ pc' = "cascade.done"
            ELSE /\ UNCHANGED outcome
                 /\ pc' = IF k < Len(call.candidates) THEN "cascade.try"
                          ELSE "cascade.fallback"
  /\ UNCHANGED <<call, content>>
  /\ RepairUnchanged

\* generateDigest 1006-1009: no candidate gave an item, the raw text is the body
RepairFallback ==
  /\ pc = "cascade.fallback"
  /\ outcome' = [state |-> "returned", value |-> <<>>]
  /\ content' = [kind |-> "raw", raw |-> rawContent, items |-> <<>>]
  /\ pc' = "cascade.done"
  /\ UNCHANGED <<call, attempts>>
  /\ RepairUnchanged

NextRepair == RepairBuild \/ RepairTry \/ RepairFallback

SpecRepair == InitRepair /\ [][NextRepair]_vars

(***************************************************************************)
(* Claims about the parse cascade (checked under SpecRepair)               *)
(***************************************************************************)

Complete(i) == i.title # <<>> /\ i.url # NoUrl /\ i.summary # ""

\* The reply is a JSON array of complete items whose summaries hold no
\* quotation mark other than the ones in marks
ArrayOfComplete(marks) ==
  /\ rawContent.form = "array"
  /\ \A i \in 1..Len(rawContent.items) :
       /\ Complete(rawContent.items[i])
       /\ rawContent.items[i].summary \in {"s"} \cup marks

\* C21: from a well-formed JSON array of complete items the cascade returns
\* exactly those items, in order and unmodified; with curly or full-width
\* quotation marks inside a summary it still recovers every item
C21_RepairRoundTrip ==
  pc = "cascade.done" =>
    /\ ArrayOfComplete({}) => outcome.value = rawContent.items
    /\ ArrayOfComplete({SumCurly, SumFullWidth}) =>
         /\ Len(outcome.value) = Len(rawContent.items)
         /\ \A i \in 1..Len(rawContent.items) :
              /\ outcome.value[i].title = rawContent.items[i].title
              /\ outcome.value[i].url = rawContent.items[i].url
              /\ outcome.value[i].category = rawContent.items[i].category
              /\ outcome.value[i].summary # ""

\* an array of two complete items, one with curly quotation marks in its
\* summary, went through the cascade and both items came back
C21_Witness ==
  /\ pc = "cascade.done"
  /\ rawContent = [form |-> "array", items |-> <<V1, V2(SumCurly)>>]
  /\ Len(outcome.value) = 2

\* Position of a base candidate in the order raw text, fence-stripped,
\* bracket-extracted, aggressive trim, single object
Rank(base) ==
  CASE base = "raw" -> 1
    [] base = "stripped" -> 2
    [] base = "extracted" -> 3
    [] base = "aggressive" -> 4
    [] base = "singleObj" -> 5

\* The quote repair changes the reply: a summary holds a typographic mark, or
\* a bare mark on a line of its own
RepairChanges ==
  \E i \in 1..Len(rawContent.items) :
    rawContent.items[i].summary \in {SumCurly, SumFullWidth, SumBareOwnLine}

\* The candidate parses and holds an item with title, url and summary
Wins(cand) ==
  cand.parses /\ \E i \in 1..Len(cand.items) : Complete(cand.items[i])

MaxTitleLen == 4

\* Every title over a letter, a digit and a unit letter, and longer titles
\* with names of four letters, amounts, punctuation and upper case
ComparedTitles ==
  SeqsUpTo({"a", "1", "k"}, MaxTitleLen)
  \cup {T_abcd, T_Ab_cd, T_ab_cd, T_efgh,
        <<"a", "b", "c", "d", " ", "1", "k">>,
        <<"e", "f", "g", "h", " ", "1", "k">>,
        <<"a", "b", "c", "d", "e", " ", "$", "1">>,
        <<"A", "b", "c", "d", ":", " ", "e", "f", "g", "h">>,
        <<"-", " ", "!">>,
        <<"c", "d", "e", "f">>}

InitTitles ==
  /\ clock = 0
  /\ ticks = 0
  /\ runs = 0
  /\ table = <<>>
  /\ pc = "titles.enter"
  /\ pushHistory = EmptyHistory
  /\ allItems = <<>>
  /\ dedupedItems = <<>>
  /\ tableAtLoad = <<>>
  /\ tableBeforeRec = <<>>
  /\ recorded = <<>>
  /\ lastRecAt = [u \in StoreUrls |-> -1]
  /\ feishuWebhook = TRUE
  /\ deepMode = FALSE
  /\ RunIdle
  /\ call \in {[fn |-> "titlesAreSimilar", a |-> a, b |-> b] :
                 a \in ComparedTitles, b \in ComparedTitles}
  /\ attempts = <<>>
  /\ outcome = Pending
  /\ okCount = 0

\* titlesAreSimilar 810-846 on the arguments of the call
TitlesCompare ==
  /\ pc = "titles.enter"
  /\ outcome' = [state |-> "returned", value |-> titlesAreSimilar(call.a, call.b)]
  /\ pc' = "titles.done"
  /\ UNCHANGED <<call, attempts, okCount>>
  /\ UNCHANGED <<storeOnly, config>>
  /\ UNCHANGED <<table, pushHistory, allItems, dedupedItems>>
  /\ UNCHANGED <<exitCode, sources, fetchLog, pushDb, rawContent, content,
                 metadata, deepAppended, handed, sent, pushedItems, events>>

NextTitles == TitlesCompare

SpecTitles == InitTitles /\ [][NextTitles]_vars

\* C22: titlesAreSimilar gives the same answer with its arguments exchanged,
\* empty titles included
C22_SimilaritySymmetric ==
  pc = "titles.done" => outcome.value = titlesAreSimilar(call.b, call.a)

\* two different titles that share a name and an amount were judged similar
C22_Witness ==
  /\ pc = "titles.done"
  /\ outcome.value
  /\ call.a = <<"a", "b", "c", "d", " ", "1", "k">>
  /\ call.b = <<"a", "b", "c", "d", "e", " ", "$", "1">>

(***************************************************************************)
(* deduplicateItems on its own, one iteration of its loop at a time. The   *)
(* call record carries the function's locals: items, seen (the Map, in     *)
(* insertion order) and result; attempts holds the items already visited.  *)
(***************************************************************************)

MaxDedupItems == 3

\* https://example.com/a written with upper case and a query
UrlA_Query == [UrlOf("a") EXCEPT !.query = "q", !.upper = TRUE]

DedupTitles == {T_abcd, T_ab_cd, T_efgh}
DedupUrls == {UrlOf("a"), UrlA_Query, UrlOf("b")}

DedupItems ==
  {Synth(t, u, "s", c) : t \in DedupTitles, u \in DedupUrls, c \in {HOT, GENERAL}}

InitDedup ==
  /\ clock = 0
  /\ ticks = 0
  /\ runs = 0
  /\ table = <<>>
  /\ pc = "dedup.loop"
  /\ pushHistory = EmptyHistory
  /\ allItems = <<>>
  /\ dedupedItems = <<>>
  /\ tableAtLoad = <<>>
  /\ tableBeforeRec = <<>>
  /\ recorded = <<>>
  /\ lastRecAt = [u \in StoreUrls |-> -1]
  /\ feishuWebhook = TRUE
  /\ deepMode = FALSE
  /\ RunIdle
  /\ call \in {[fn |-> "deduplicateItems", items |-> its, seen |-> <<>>,
                result |-> <<>>] : its \in SeqsUpTo(DedupItems, MaxDedupItems)}
  /\ attempts = <<>>
  /\ outcome = Pending
  /\ okCount = 0

DedupUnchanged ==
  /\ UNCHANGED okCount
  /\ UNCHANGED <<storeOnly, config>>
  /\ UNCHANGED <<table, pushHistory, allItems, dedupedItems>>
  /\ UNCHANGED <<exitCode, sources, fetchLog, pushDb, rawContent, content,
                 metadata, deepAppended, handed, sent, pushedItems, events>>

\* deduplicateItems 884-917: one iteration of for (const item of items)
DedupIterate ==
  /\ pc = "dedup.loop"
  /\ Len(attempts) < Len(call.items)
  /\ LET item == call.items[Len(attempts) + 1]
         acc == DedupStep([seen |-> call.seen, result |-> call.result], item,
                          normalizeUrl(item.url),
                          FirstSimilar(call.seen, item.title))
     IN  /\ call' = [call EXCEPT !.seen = acc.seen, !.result = acc.result]
         /\ attempts' = Append(attempts, item)
  /\ UNCHANGED <<pc, outcome>>
  /\ DedupUnchanged

\* deduplicateItems 919-922: the loop is over, return result
DedupReturn ==
  /\ pc = "dedup.loop"
  /\ Len(attempts) = Len(call.items)
  /\ outcome' = [state |-> "returned", value |-> call.result]
  /\ pc' = "dedup.done"
  /\ UNCHANGED <<call, attempts>>
  /\ DedupUnchanged

NextDedup == DedupIterate \/ DedupReturn

SpecDedup == InitDedup /\ [][NextDedup]_vars

\* Two synthesized items collide: same normalized URL, or similar titles
Collide(x, y) ==
  \/ normalizeUrl(x.url) = normalizeUrl(y.url)
  \/ titlesAreSimilar(x.title, y.title)

\* The later item outranks the kept one
Outranks(later, kept) == later.category = HOT /\ kept.category # HOT

\* The number of kept items the item under inspection collides with
Collisions(result, item) ==
  Cardinality({p \in 1..Len(result) : Collide(item, result[p])})

\* C24: when the item visited collides with a kept item, exactly one of the
\* two remains: the later item takes the kept one's position if and only if
\* it is 重要动态 and the kept one is not, otherwise the output is left as it
\* was and the later item is dropped. (Where the item collides with several
\* kept items, dropping it satisfies the claim for each of them.)
C24_OneOfTwoRemains ==
  [][(pc = "dedup.loop" /\ Len(attempts) < Len(call.items)) =>
       LET item == call.items[Len(attempts) + 1]
       IN  \A p \in 1..Len(call.result) :
             Collide(item, call.result[p]) =>
               \/ /\ Outranks(item, call.result[p])
                  /\ call'.result = [call.result EXCEPT ![p] = item]
               \/ /\ call'.result = call.result
                  /\ \/ ~Outranks(item, call.result[p])
                     \/ Collisions(call.result, item) > 1]_vars

\* C25: no two items of the output of deduplicateItems have the same
\* normalized URL or similar titles, and the output holds each item at most
\* as often as the input does, unmodified
C25_OutputCollisionFree ==
  pc = "dedup.done" =>
    /\ \A p, q \in 1..Len(outcome.value) :
         p # q => ~Collide(outcome.value[p], outcome.value[q])
    /\ \A x \in DedupItems :
         Cardinality({p \in 1..Len(outcome.value) : outcome.value[p] = x})
           <= Cardinality({i \in 1..Len(call.items) : call.items[i] = x})

(***************************************************************************)
(* Step 2.5 and 2.6 of main on their own: the history is loaded, then the  *)
(* pre-dedup loop visits the fetched items one iteration at a time, then   *)
(* the counts are logged. The call record carries seenUrls and the two     *)
(* counters; attempts holds, per visited item, the way its iteration       *)
(* ended: "stale", "batch", "history" or "kept".                           *)
(***************************************************************************)

MaxPreItems == 3

PreNow == 100

PreTitles == {T_abcd, T_efgh}
PreUrls == {NoUrl, UrlOf("a"), UrlWwwOf("a"), UrlOf("b")}
PreDates == {NoDate, BadDate, DateAt(PreNow - MAX_ARTICLE_AGE_HOURS),
             DateAt(PreNow - MAX_ARTICLE_AGE_HOURS - 1)}

PreItems == {Fetched(t, u, d) : t \in PreTitles, u \in PreUrls, d \in PreDates}

\* The table holds one row, pushed an hour ago
PreTable ==
  recordPushedItems(<<>>, <<Fetched(T_abcd, UrlOf("a"), NoDate)>>, DIGEST_TYPE,
                    PreNow - 1)

InitPreDedup ==
  /\ clock = PreNow
  /\ ticks = 0
  /\ runs = 0
  /\ table = PreTable
  /\ pc = "pre.history"
  /\ pushHistory = EmptyHistory
  /\ allItems \in SeqsUpTo(PreItems, MaxPreItems) \ {<<>>}
  /\ dedupedItems = <<>>
  /\ tableAtLoad = <<>>
  /\ tableBeforeRec = <<>>
  /\ recorded = <<>>
  /\ lastRecAt = [u \in StoreUrls |-> -1]
  /\ feishuWebhook = TRUE
  /\ deepMode = FALSE
  /\ RunIdle
  /\ call = [fn |-> "preDedup", seenUrls |-> {}, historySkipped |-> 0,
             staleSkipped |-> 0]
  /\ attempts = <<>>
  /\ outcome = Pending
  /\ okCount = 0

PreDedupUnchanged ==
  /\ UNCHANGED okCount
  /\ UNCHANGED <<storeOnly, config>>
  /\ UNCHANGED allItems
  /\ UNCHANGED <<exitCode, sources, fetchLog, rawContent, content, metadata,
                 deepAppended, handed, sent, pushedItems, events>>

\* main 1267-1273: open the store, load the history, prune
PreLoadHistory ==
  /\ pc = "pre.history"
  /\ \E opened \in BOOLEAN :
       /\ pushDb' = opened
       /\ pushHistory' = IF opened
                         THEN loadPushedHistory(table, SuppressHours, clock, TRUE)
                         ELSE EmptyHistory
       /\ table' = IF opened
                   THEN cleanOldPushedItems(table, RetentionDays, clock, TRUE)
                   ELSE table
  /\ pc' = "pre.loop"
  /\ UNCHANGED <<dedupedItems, call, attempts, outcome>>
  /\ PreDedupUnchanged

\* The way an iteration ended, read off the locals before and after it
Verdict(acc, nxt) ==
  IF nxt.staleSkipped # acc.staleSkipped THEN "stale"
  ELSE IF nxt.historySkipped # acc.historySkipped THEN "history"
  ELSE IF nxt.dedupedItems # acc.dedupedItems THEN "kept"
  ELSE "batch"

\* main 1281-1298: one iteration of for (const item of allItems)
PreIterate ==
  /\ pc = "pre.loop"
  /\ Len(attempts) < Len(allItems)
  /\ LET acc == [seenUrls |-> call.seenUrls, dedupedItems |-> dedupedItems,
                 historySkipped |-> call.historySkipped,
                 staleSkipped |-> call.staleSkipped]
         nxt == PreDedupStep(acc, allItems[Len(attempts) + 1], pushDb,
                             pushHistory, clock)
     IN  /\ call' = [call EXCEPT !.seenUrls = nxt.seenUrls,
                                 !.historySkipped = nxt.historySkipped,
                                 !.staleSkipped = nxt.staleSkipped]
         /\ dedupedItems' = nxt.dedupedItems
         /\ attempts' = Append(attempts, Verdict(acc, nxt))
  /\ UNCHANGED <<pc, outcome, table, pushHistory, pushDb>>
  /\ PreDedupUnchanged

\* main 1300-1303: batchSkipped is what the other counts leave over
PreLogCounts ==
  /\ pc = "pre.loop"
  /\ Len(attempts) = Len(allItems)
  /\ outcome' = [state |-> "returned",
                 value |-> [fetched |-> Len(allItems),
                            survivors |-> Len(dedupedItems),
                            batchSkipped |-> Len(allItems) - Len(dedupedItems)
                                             - call.historySkipped
                                             - call.staleSkipped,
                            historySkipped |-> call.historySkipped,
                            staleSkipped |-> call.staleSkipped]]
  /\ pc' = "pre.done"
  /\ UNCHANGED <<dedupedItems, call, attempts, table, pushHistory, pushDb>>
  /\ PreDedupUnchanged

NextPreDedup == PreLoadHistory \/ PreIterate \/ PreLogCounts

SpecPreDedup == InitPreDedup /\ [][NextPreDedup]_vars

\* The publish date is present, parses, and is more than 72 hours before now
TooOld(item) ==
  /\ item.pubDate \notin {NoDate, BadDate}
  /\ clock - item.pubDate.at > 72

\* C26: an item is dropped by the stale filter exactly when its publish date
\* is present, parses and lies more than 72 hours before now; an item with no
\* date, an unparseable date or an age of at most 72 hours is never dropped
\* by it
C26_StaleIffTooOld ==
  \A i \in 1..Len(attempts) : (attempts[i] = "stale") <=> TooOld(allItems[i])

\* an item aged 73 hours was dropped as stale, one aged exactly 72 hours and
\* one with an unparseable date were kept
C26_Witness ==
  /\ pc = "pre.done"
  /\ attempts = <<"stale", "kept", "kept">>
  /\ allItems[2].pubDate = DateAt(PreNow - 72)
  /\ allItems[3].pubDate = BadDate

\* Visited item i is not stale and an earlier item that is not stale has its
\* non-empty normalized URL
LaterInBatch(i) ==
  /\ ~TooOld(allItems[i])
  /\ normUrlOf(allItems[i]) # EmptyStr
  /\ \E j \in 1..(i - 1) :
       /\ ~TooOld(allItems[j])
       /\ normUrlOf(allItems[j]) = normUrlOf(allItems[i])

\* C27: among the items that are not stale, an item is dropped as a batch
\* duplicate exactly when an earlier one has its non-empty normalized URL,
\* also when that earlier one was suppressed by the history; an item with an
\* empty URL is never dropped as a batch duplicate; the survivors never hold
\* two items with the same non-empty normalized URL
C27_FirstOfBatchOnly ==
  /\ \A i \in 1..Len(attempts) : (attempts[i] = "batch") <=> LaterInBatch(i)
  /\ \A p, q \in 1..Len(dedupedItems) :
       (p # q /\ normUrlOf(dedupedItems[p]) = normUrlOf(dedupedItems[q]))
         => normUrlOf(dedupedItems[p]) = EmptyStr

\* the first item was suppressed by the history, a later spelling of its URL
\* under another title was dropped as a batch duplicate, and an item without
\* URL was kept
C27_Witness ==
  /\ pc = "pre.done"
  /\ attempts = <<"history", "batch", "kept">>
  /\ allItems[2].url # allItems[1].url
  /\ allItems[2].title # allItems[1].title
  /\ allItems[3].url = NoUrl

\* s can be obtained from t by leaving items out
RECURSIVE IsSubseq(_, _)
IsSubseq(s, t) ==
  IF s = <<>> THEN TRUE
  ELSE IF t = <<>> THEN FALSE
  ELSE IF Head(s) = Head(t) THEN IsSubseq(Tail(s), Tail(t))
  ELSE IsSubseq(s, Tail(t))

Count(S) == Cardinality(S)

\* C28: the survivors are a subsequence of the fetched list, and the logged
\* counts are the numbers of stale items, batch duplicates and items
\* suppressed by the history, which with the survivors add up to the number
\* of fetched items
C28_SubsequenceAndCounts ==
  /\ IsSubseq(dedupedItems, allItems)
  /\ pc = "pre.done" =>
       /\ outcome.value.staleSkipped
            = Count({i \in 1..Len(allItems) : TooOld(allItems[i])})
       /\ outcome.value.batchSkipped
            = Count({i \in 1..Len(allItems) : LaterInBatch(i)})
       /\ outcome.value.historySkipped
            = Count({i \in 1..Len(allItems) :
                       /\ ~TooOld(allItems[i])
                       /\ ~LaterInBatch(i)
                       /\ pushDb
                       /\ isItemPushedBefore(pushHistory, allItems[i])})
       /\ outcome.value.survivors = Len(dedupedItems)
       /\ outcome.value.fetched = Len(allItems)
       /\ outcome.value.staleSkipped + outcome.value.batchSkipped
            + outcome.value.historySkipped + outcome.value.survivors
            = outcome.value.fetched

\* of three fetched items the first survived, the second was stale and the
\* third a batch duplicate of the first, and the log said so
C28_Witness ==
  /\ pc = "pre.done"
  /\ attempts = <<"kept", "stale", "batch">>
  /\ outcome.value.staleSkipped = 1
  /\ outcome.value.batchSkipped = 1
  /\ outcome.value.survivors = 1
  /\ dedupedItems = <<allItems[1]>>

====
